---- MODULE Spec2Model ----
(***************************************************************************)
(* Model of the answer-construction core of the repository:                *)
(*   - the chunk assembler  (src/backend/document_parser.py)               *)
(*   - the query pipeline   (src/query_agent.py)                           *)
(* Text is a sequence of one-character strings, so that strip(), join(),   *)
(* slicing, the regular-expression split and substring tests are computed  *)
(* the way the Python code computes them.  Lengths are character lengths   *)
(* (the fallback of _tokens_len when no tokenizer is installed).           *)
(***************************************************************************)
EXTENDS Integers, Sequences, FiniteSets, TLC

\* ------------------------------------------------------------------ text

SP == " "
NL == "\n"
\* str.isspace() over the ASCII characters: what str.strip() removes and what
\* \s matches (tab, line feed, vertical tab, form feed, carriage return, the
\* four separators FS GS RS US, space)
Whitespace == {"\t", NL, "", "\f", "\r", "", "", "", "", SP}
SentenceEnd == {".", "!", "?"}

RECURSIVE lstrip(_)
lstrip(s) == IF s # <<>> /\ Head(s) \in Whitespace THEN lstrip(Tail(s)) ELSE s

RECURSIVE rstrip(_)
rstrip(s) ==
  IF s # <<>> /\ s[Len(s)] \in Whitespace THEN rstrip(SubSeq(s, 1, Len(s) - 1)) ELSE s

\* str.strip()
strip(s) == rstrip(lstrip(s))

\* sep.join(parts)
RECURSIVE join(_, _)
join(sep, parts) ==
  IF parts = <<>> THEN <<>>
  ELSE IF Len(parts) = 1 THEN parts[1]
  ELSE parts[1] \o sep \o join(sep, Tail(parts))

\* "".join(parts)
RECURSIVE concat(_)
concat(parts) == IF parts = <<>> THEN <<>> ELSE Head(parts) \o concat(Tail(parts))

\* p in s   (substring test)
contains(s, p) ==
  \E i \in 1..(Len(s) - Len(p) + 1) : \A j \in 1..Len(p) : s[i + j - 1] = p[j]

\* s[-n:]  for n >= 1
last_chars(s, n) == IF n >= Len(s) THEN s ELSE SubSeq(s, Len(s) - n + 1, Len(s))

\* s[:n]  for n >= 0
first_items(s, n) == IF n >= Len(s) THEN s ELSE SubSeq(s, 1, n)

\* The tokenizer (_ENC, tiktoken's cl100k_base) is a library outside the
\* repository.  Where one is installed it is stood for by the tokenizer that
\* makes every character one token; `e` says whether one is installed.
encode(text) == [i \in 1..Len(text) |-> << text[i] >>]
decode(toks) == concat(toks)

\* _tokens_len
tokens_len(text, e) ==
  IF text = <<>> THEN 0
  ELSE IF e THEN Len(encode(text))
  ELSE Len(text)

\* _hash_text(*parts): SHA-256 over the concatenated parts.  The digest is
\* modelled as the hashed byte string itself (a collision-free hash).
hash_text(parts) == concat(parts)

\* ------------------------------------------------- chunker: regex split

\* length of the maximal run of characters of `set` starting at s[i]
RECURSIVE run_len(_, _, _)
run_len(s, i, set) ==
  IF i <= Len(s) /\ s[i] \in set THEN 1 + run_len(s, i + 1, set) ELSE 0

\* length of the match of  \n+ | (?<=[.!?])\s+  at position i (0: no match)
sep_match(s, i) ==
  IF s[i] = NL THEN run_len(s, i, {NL})
  ELSE IF s[i] \in Whitespace /\ i > 1 /\ s[i - 1] \in SentenceEnd
       THEN run_len(s, i, Whitespace)
       ELSE 0

\* re.split(r'(\n+|(?<=[.!?])\s+)', text): text, separator, text, ...
RECURSIVE re_split_from(_, _, _)
re_split_from(s, start, i) ==
  IF i > Len(s) THEN << SubSeq(s, start, Len(s)) >>
  ELSE LET m == sep_match(s, i) IN
       IF m = 0 THEN re_split_from(s, start, i + 1)
       ELSE << SubSeq(s, start, i - 1), SubSeq(s, i, i + m - 1) >>
            \o re_split_from(s, i + m, i + m)

re_split(s) == re_split_from(s, 1, 1)

\* the loop of _smart_units over the split parts
RECURSIVE smart_units_loop(_, _, _)
smart_units_loop(parts, buf, out) ==
  IF parts = <<>> THEN (IF buf # <<>> THEN Append(out, buf) ELSE out)
  ELSE LET p == Head(parts)
           nb == buf \o p
           closes == \/ strip(p) = <<>>
                     \/ (p # <<>> /\ p[Len(p)] = NL)
                     \/ (Len(strip(p)) = 1 /\ strip(p)[1] \in SentenceEnd)
       IN IF closes THEN smart_units_loop(Tail(parts), <<>>, Append(out, nb))
          ELSE smart_units_loop(Tail(parts), nb, out)

smart_units(text) == smart_units_loop(re_split(text), <<>>, <<>>)

\* the loop of _split_large_text (character based)
RECURSIVE split_loop(_, _, _, _, _)
split_loop(units, max_len, buf, cur, pieces) ==
  IF units = <<>>
  THEN (IF buf # <<>> THEN Append(pieces, strip(concat(buf))) ELSE pieces)
  ELSE LET u == Head(units)
           ul == Len(u)
       IN IF cur + ul > max_len /\ buf # <<>>
          THEN split_loop(Tail(units), max_len, <<u>>, ul,
                          Append(pieces, strip(concat(buf))))
          ELSE split_loop(Tail(units), max_len, Append(buf, u), cur + ul, pieces)

\* the list the character branch hands to `return`
char_pieces(text, max_len) ==
  SelectSeq(split_loop(smart_units(text), max_len, <<>>, 0, <<>>),
            LAMBDA p : p # <<>>)

\* for i in range(0, len(toks), max_len): yield decode(toks[i:i+max_len]).strip()
RECURSIVE token_pieces(_, _)
token_pieces(toks, max_len) ==
  IF toks = <<>> THEN <<>>
  ELSE << strip(decode(first_items(toks, max_len))) >>
       \o token_pieces(SubSeq(toks, max_len + 1, Len(toks)), max_len)

\* What iterating _split_large_text(text, max_len) produces.  The function
\* body holds a `yield`, so it is a generator function: in the character
\* branch `return [...]` ends the generator with the list as its return
\* value and the iteration produces no piece at all.
split_large_text(text, max_len, e) ==
  IF e THEN token_pieces(encode(text), max_len)
  ELSE <<>>


\* ------------------------------------------------------- chunker: state

VARIABLES
  elements,   \* the NormalizedElement sequence given to chunk_elements
  options,    \* the ChunkOptions given to chunk_elements
  pos,        \* index of the next element of the for loop
  cs,         \* locals of chunk_elements: chunks, cur_text_parts, cur_ids,
              \* section_heading, and the argument source_info (source);
              \* and, for the record, cur_pos (positions in `elements` of
              \* the elements behind cur_ids) and carry (positions of the
              \* elements the carried-over overlap text was cut from)
  enc,        \* whether a tokenizer is installed (_ENC is not None)
  phase,      \* "loop" | "done"
  run,        \* 1: first call of chunk_elements, 2: the call repeated
  prev_chunks \* the list of chunks the first call returned

chunk_vars == << elements, options, enc, pos, cs, phase, run, prev_chunks >>

TableOpen  == << "[", "T", "A", "B", "L", "E", "]" >>
TableClose == << "[", "/", "T", "A", "B", "L", "E", "]" >>

\* "Table" in str(type_name): the type name is text, the test a substring test
is_table_type(type_name) == contains(type_name, << "T", "a", "b", "l", "e" >>)

\* "Title" in str(type_name) or "Heading" in str(type_name)
is_heading_type(type_name) ==
  contains(type_name, << "T", "i", "t", "l", "e" >>) \/ contains(type_name, << "H", "e", "a", "d", "i", "n", "g" >>)

\* _table_repr
table_repr(el) ==
  IF el.table_html # <<>>
  THEN TableOpen \o <<NL>> \o el.table_html \o <<NL>> \o TableClose
  ELSE el.text

\* is_table = options.keep_tables_intact and bool(el.table_html) or _is_table_type(el.type)
is_table_of(el, o) ==
  (o.keep_tables_intact /\ el.table_html # <<>>) \/ is_table_type(el.type)

\* representation of an element, stripped
representation_of(el, o) ==
  strip(IF is_table_of(el, o) /\ el.table_html # <<>> THEN table_repr(el) ELSE el.text)

\* source_info is None here (`source_info or {}` is then the empty dictionary)
EmptyBuffer ==
  [chunks |-> <<>>, cur_text_parts |-> <<>>, cur_ids |-> <<>>,
   section_heading |-> <<>>, cur_pos |-> <<>>, carry |-> {}, source |-> <<>>]

\* the locals at the start of chunk_elements(elements, options, source_info)
start_buffer(source_info) == [EmptyBuffer EXCEPT !.source = source_info]

\* _reset
reset(c) ==
  [c EXCEPT !.cur_text_parts = <<>>, !.cur_ids = <<>>, !.cur_pos = <<>>, !.carry = {}]

\* current_len
current_len(c, e) == tokens_len(join(<<NL>>, c.cur_text_parts), e)

\* make_chunk with an identifier that also hashes a counter of the chunks
\* made so far in the process, by this call and by the calls before it (an
\* identifier that depends on the ordering context and on the call history)
make_chunk_positional(c, text, e, via) ==
  [chunk_id      |-> hash_text(<< text, join(<<",">>, c.cur_ids),
                                  [i \in 1..(Len(prev_chunks) + Len(c.chunks)) |-> "#"] >>),
   text          |-> text,
   tokens        |-> tokens_len(text, e),
   from_elements |-> c.cur_ids,
   source        |-> c.source,
   section_heading |-> c.section_heading,
   via           |-> via,
   from_pos      |-> c.cur_pos,
   carry         |-> c.carry]

\* the Chunk appended by flush_chunk; `via` names the call site of the flush
make_chunk(c, text, e, via) ==
  [chunk_id      |-> hash_text(<< text, join(<<",">>, c.cur_ids) >>),
   text          |-> text,
   tokens        |-> tokens_len(text, e),
   from_elements |-> c.cur_ids,
   source        |-> c.source,
   section_heading |-> c.section_heading,
   via           |-> via,
   from_pos      |-> c.cur_pos,
   carry         |-> c.carry]

\* flush_chunk that carries the overlap over even when the flush is forced
flush_chunk_overlap_on_force(c, o, e, force, via) ==
  IF c.cur_text_parts = <<>> THEN c
  ELSE LET text    == strip(join(<<NL>>, c.cur_text_parts))
           tok_len == tokens_len(text, e)
           overlap == IF o.overlap_tokens > 0 THEN o.overlap_tokens ELSE 0
           tail_text == IF e THEN decode(last_chars(encode(text), overlap))
                        ELSE last_chars(text, overlap)
       IN IF text = <<>> THEN reset(c)
          ELSE LET c2 == [c EXCEPT !.chunks = Append(@, make_chunk(c, text, e, via))]
               IN IF overlap = 0 \/ tok_len <= overlap
                  THEN reset(c2)
                  ELSE [c2 EXCEPT !.cur_text_parts = << tail_text >>,
                                  !.cur_ids = <<>>,
                                  !.cur_pos = <<>>,
                                  !.carry = c.carry \cup {c.cur_pos[k] : k \in 1..Len(c.cur_pos)}]

\* flush_chunk(force)
flush_chunk(c, o, e, force, via) ==
  IF c.cur_text_parts = <<>> THEN c
  ELSE LET text    == strip(join(<<NL>>, c.cur_text_parts))
           tok_len == tokens_len(text, e)
           overlap == IF o.overlap_tokens > 0 THEN o.overlap_tokens ELSE 0
           tail_text == IF e THEN decode(last_chars(encode(text), overlap))
                        ELSE last_chars(text, overlap)
       IN IF text = <<>> THEN reset(c)
          ELSE LET c2 == [c EXCEPT !.chunks = Append(@, make_chunk(c, text, e, via))]
               IN IF force \/ overlap = 0 \/ tok_len <= overlap
                  THEN reset(c2)
                  ELSE [c2 EXCEPT !.cur_text_parts = << tail_text >>,
                                  !.cur_ids = <<>>,
                                  !.cur_pos = <<>>,
                                  !.carry = c.carry \cup {c.cur_pos[k] : k \in 1..Len(c.cur_pos)}]

\* cur_text_parts.append(part); cur_ids.append(el.element_id)
append_part(c, part, el, p) ==
  [c EXCEPT !.cur_text_parts = Append(@, part),
            !.cur_ids = Append(@, el.element_id),
            !.cur_pos = Append(@, p)]

\* for piece in _split_large_text(...): append; flush_chunk()
RECURSIVE emit_pieces(_, _, _, _, _, _)
emit_pieces(c, o, e, pieces, el, p) ==
  IF pieces = <<>> THEN c
  ELSE emit_pieces(flush_chunk(append_part(c, Head(pieces), el, p), o, e, FALSE, "split"),
                   o, e, Tail(pieces), el, p)

\* one iteration of the for loop of chunk_elements
process_element(c0, o, e, el, p) ==
  LET is_table == is_table_of(el, o)
      c == IF o.respect_headings /\ is_heading_type(el.type)
           THEN [flush_chunk(c0, o, e, TRUE, "heading")
                   EXCEPT !.section_heading = strip(el.text)]
           ELSE c0
      representation == representation_of(el, o)
      max_len == o.max_tokens
      el_tokens == tokens_len(representation, e)
      table_flush(x) == IF is_table THEN flush_chunk(x, o, e, FALSE, "table") ELSE x
  IN IF representation = <<>> THEN c
     ELSE IF o.combine_short_elements /\ Len(representation) < o.min_element_length
     THEN LET rep_with_space ==
                IF c.cur_text_parts = <<>> THEN representation
                ELSE <<SP>> \o representation
          IN IF current_len(c, e) + tokens_len(rep_with_space, e) <= max_len
             THEN append_part(c, rep_with_space, el, p)
             ELSE append_part(flush_chunk(c, o, e, FALSE, "short"), representation, el, p)
     ELSE IF el_tokens > max_len
     THEN emit_pieces(flush_chunk(c, o, e, FALSE, "presplit"), o, e,
                      split_large_text(representation, max_len, e), el, p)
     ELSE IF current_len(c, e) + el_tokens <= max_len
     THEN table_flush(append_part(c, representation, el, p))
     ELSE table_flush(append_part(flush_chunk(c, o, e, FALSE, "accum"),
                                  representation, el, p))


\* chunk_elements as a whole: the loop over the elements and the final flush
RECURSIVE chunk_loop(_, _, _, _, _)
chunk_loop(c, o, e, els, p) ==
  IF p > Len(els) THEN flush_chunk(c, o, e, TRUE, "final")
  ELSE chunk_loop(process_element(c, o, e, els[p], p), o, e, els, p + 1)

chunk_elements(els, o, e) == chunk_loop(EmptyBuffer, o, e, els, 1).chunks

\* ======================================================== query pipeline
\* (src/query_agent.py)

\* -------------------------------------------------------- text, continued

UpperLetters == << "A", "B", "C", "D", "E", "F", "G", "H", "I", "J", "K", "L", "M", "N", "O", "P", "Q", "R", "S", "T", "U", "V", "W", "X", "Y", "Z" >>
LowerLetters == << "a", "b", "c", "d", "e", "f", "g", "h", "i", "j", "k", "l", "m", "n", "o", "p", "q", "r", "s", "t", "u", "v", "w", "x", "y", "z" >>
Digits == << "0", "1", "2", "3", "4", "5", "6", "7", "8", "9" >>

\* str.lower(), one character
LowerOf ==
  [ch \in {UpperLetters[i] : i \in 1..Len(UpperLetters)} |->
     LowerLetters[CHOOSE i \in 1..Len(UpperLetters) : UpperLetters[i] = ch]]

lower_char(ch) == IF ch \in DOMAIN LowerOf THEN LowerOf[ch] ELSE ch

\* str.lower()
lower(s) == [i \in 1..Len(s) |-> lower_char(s[i])]

\* str.replace(a, b) for a single character a
replace_char(s, a, b) == [i \in 1..Len(s) |-> IF s[i] = a THEN b ELSE s[i]]

\* str(n) for a natural number n
RECURSIVE int_str(_)
int_str(n) == IF n < 10 THEN << Digits[n + 1] >> ELSE int_str(n \div 10) \o << Digits[(n % 10) + 1] >>

\* lst[-n:] for any integer n: lst[-0:] is the whole list, and for a negative
\* n the slice starts at index -n and drops the first -n entries
last_items(lst, n) ==
  IF n > 0
  THEN IF n >= Len(lst) THEN lst ELSE SubSeq(lst, Len(lst) - n + 1, Len(lst))
  ELSE IF - n >= Len(lst) THEN <<>> ELSE SubSeq(lst, 1 - n, Len(lst))

Ellipsis == "..."

\* s[:n] for any integer n: a negative n counts from the end
slice_to(s, n) ==
  IF n >= 0 THEN first_items(s, n)
  ELSE IF Len(s) + n <= 0 THEN <<>>
  ELSE SubSeq(s, 1, Len(s) + n)

\* summarize_text: (s[:max_chars - 1] + ellipsis character) if len(s) > max_chars else s
summarize_text(s, max_chars) ==
  IF Len(s) > max_chars THEN Append(slice_to(s, max_chars - 1), Ellipsis) ELSE s

\* the characters [a-z0-9]
WordChars ==
  {LowerLetters[i] : i \in 1..Len(LowerLetters)} \cup {Digits[i] : i \in 1..Len(Digits)}

\* set(re.findall(r"[a-z0-9]+", s)): the maximal runs of word characters
find_words(s, i) ==
  {SubSeq(s, a, a + run_len(s, a, WordChars) - 1) :
     a \in {k \in i..Len(s) : s[k] \in WordChars /\ (k = i \/ s[k - 1] \notin WordChars)}}

\* ------------------------------------------------------------ doubles

\* A natural number of any size: its digits in base 2^15, lowest first,
\* without leading zero digits (<<>> is 0).
Base == 2 ^ 15

\* a without its leading zero digits
nat_norm(a) ==
  IF a = <<>> \/ a[Len(a)] # 0 THEN a
  ELSE IF \A i \in 1..Len(a) : a[i] = 0 THEN <<>>
  ELSE SubSeq(a, 1, CHOOSE i \in 1..Len(a) : a[i] # 0 /\ \A j \in (i + 1)..Len(a) : a[j] = 0)

RECURSIVE nat_of(_)
nat_of(n) == IF n = 0 THEN <<>> ELSE << n % Base >> \o nat_of(n \div Base)

limb(a, i) == IF i <= Len(a) THEN a[i] ELSE 0

\* The digits of a sum, a difference or a product with a small number are
\* worked out from the lowest digit up, each digit handing a carry to the
\* next: `d` are the digits of a range lo..hi, `c` is the carry out of it.
\* A range is worked out as its lower half followed by its upper half.
nat_joined(low, high) == [d |-> low.d \o high.d, c |-> high.c]

\* digits lo..hi of a + b + carry
RECURSIVE nat_add_from(_, _, _, _, _)
nat_add_upper(a, b, lo, hi, low) ==
  nat_joined(low, nat_add_from(a, b, ((lo + hi) \div 2) + 1, hi, low.c))

nat_add_digit(t) == [d |-> << t % Base >>, c |-> t \div Base]

nat_add_from(a, b, lo, hi, carry) ==
  IF lo = hi THEN nat_add_digit(limb(a, lo) + limb(b, lo) + carry)
  ELSE nat_add_upper(a, b, lo, hi, nat_add_from(a, b, lo, (lo + hi) \div 2, carry))

\* the digits of a range and the carry out of it as one more digit
nat_carried(r) == IF r.c = 0 THEN r.d ELSE Append(r.d, r.c)

nat_add(a, b) ==
  IF a = <<>> THEN b
  ELSE IF b = <<>> THEN a
  ELSE nat_carried(nat_add_from(a, b, 1, IF Len(a) > Len(b) THEN Len(a) ELSE Len(b), 0))

\* digits lo..hi of a - b - borrow; the carry is what the next digit lends
RECURSIVE nat_sub_from(_, _, _, _, _)
nat_sub_upper(a, b, lo, hi, low) ==
  nat_joined(low, nat_sub_from(a, b, ((lo + hi) \div 2) + 1, hi, low.c))

nat_sub_digit(t) == [d |-> << IF t < 0 THEN t + Base ELSE t >>, c |-> IF t < 0 THEN 1 ELSE 0]

nat_sub_from(a, b, lo, hi, borrow) ==
  IF lo = hi THEN nat_sub_digit(limb(a, lo) - limb(b, lo) - borrow)
  ELSE nat_sub_upper(a, b, lo, hi, nat_sub_from(a, b, lo, (lo + hi) \div 2, borrow))

\* a - b for a >= b
nat_sub(a, b) == IF b = <<>> THEN a ELSE nat_norm(nat_sub_from(a, b, 1, Len(a), 0).d)

\* the highest digit at which a and b of one length differ
nat_cmp_at(a, b) ==
  CHOOSE i \in 1..Len(a) : a[i] # b[i] /\ \A j \in (i + 1)..Len(a) : a[j] = b[j]

\* -1, 0, 1 as a < b, a = b, a > b
nat_cmp(a, b) ==
  IF Len(a) > Len(b) THEN 1
  ELSE IF Len(a) < Len(b) THEN -1
  ELSE IF a = b THEN 0
  ELSE IF a[nat_cmp_at(a, b)] > b[nat_cmp_at(a, b)] THEN 1
  ELSE -1

\* digits lo..hi of a * k + carry for 0 < k < Base
RECURSIVE nat_mul_small_from(_, _, _, _, _)
nat_mul_small_upper(a, k, lo, hi, low) ==
  nat_joined(low, nat_mul_small_from(a, k, ((lo + hi) \div 2) + 1, hi, low.c))

nat_mul_small_from(a, k, lo, hi, carry) ==
  IF lo = hi THEN nat_add_digit(a[lo] * k + carry)
  ELSE nat_mul_small_upper(a, k, lo, hi, nat_mul_small_from(a, k, lo, (lo + hi) \div 2, carry))

\* a * k for 0 <= k < Base
nat_mul_small(a, k) ==
  IF k = 0 \/ a = <<>> THEN <<>> ELSE nat_carried(nat_mul_small_from(a, k, 1, Len(a), 0))

\* a * Base^k
nat_shifted(a, k) == IF a = <<>> THEN <<>> ELSE [i \in 1..k |-> 0] \o a

\* a times the digits lo..hi of b
RECURSIVE nat_mul_from(_, _, _, _)
nat_mul_from(a, b, lo, hi) ==
  IF lo = hi THEN nat_mul_small(a, b[lo])
  ELSE nat_add(nat_mul_from(a, b, lo, (lo + hi) \div 2),
               nat_shifted(nat_mul_from(a, b, ((lo + hi) \div 2) + 1, hi),
                           ((lo + hi) \div 2) + 1 - lo))

nat_mul(a, b) == IF a = <<>> \/ b = <<>> THEN <<>> ELSE nat_mul_from(a, b, 1, Len(b))

\* A division goes from the highest digit down, each digit handing what is
\* left over to the next: `q` are the digits of the quotient for a range
\* lo..hi of the digits of the dividend, `r` is what is left below it.  A
\* range is worked out as its upper half, looked at first, followed by its
\* lower half.
nat_div_joined(high, low) ==
  IF high.q = <<>> THEN low ELSE [q |-> low.q \o high.q, r |-> low.r]

\* the digits lo..hi of a divided by d for 0 < d < Base, r left over from
\* the digits above
RECURSIVE nat_div_small_from(_, _, _, _, _)
nat_div_small_lower(a, d, lo, hi, high) ==
  nat_div_joined(high, nat_div_small_from(a, d, lo, (lo + hi) \div 2, high.r))

nat_div_small_digit(t, d) == [q |-> << t \div d >>, r |-> t % d]

nat_div_small_from(a, d, lo, hi, r) ==
  IF lo = hi THEN nat_div_small_digit(r * Base + a[lo], d)
  ELSE nat_div_small_lower(a, d, lo, hi,
                           nat_div_small_from(a, d, ((lo + hi) \div 2) + 1, hi, r))

\* floor(a / d) for 0 < d < Base
nat_div_small(a, d) ==
  IF a = <<>> THEN <<>> ELSE nat_norm(nat_div_small_from(a, d, 1, Len(a), 0).q)

\* a * 2^k
nat_shl(a, k) ==
  IF a = <<>> THEN <<>>
  ELSE [i \in 1..(k \div 15) |-> 0] \o nat_mul_small(a, 2 ^ (k % 15))

\* floor(a / 2^k)
nat_shr(a, k) ==
  IF k \div 15 >= Len(a) THEN <<>>
  ELSE nat_div_small(SubSeq(a, k \div 15 + 1, Len(a)), 2 ^ (k % 15))

\* a mod 2^k
nat_low(a, k) ==
  IF k \div 15 >= Len(a) THEN a
  ELSE nat_norm(Append(SubSeq(a, 1, k \div 15), a[k \div 15 + 1] % (2 ^ (k % 15))))

RECURSIVE int_bits(_)
int_bits(n) == IF n = 0 THEN 0 ELSE 1 + int_bits(n \div 2)

\* the number of binary digits of a
nat_bits(a) == IF a = <<>> THEN 0 ELSE 15 * (Len(a) - 1) + int_bits(a[Len(a)])

\* the largest digit g in lo..hi with d * g <= r  (d * lo <= r)
RECURSIVE nat_digit(_, _, _, _)
nat_digit(d, r, lo, hi) ==
  IF lo = hi THEN lo
  ELSE IF nat_cmp(nat_mul_small(d, (lo + hi + 1) \div 2), r) <= 0
  THEN nat_digit(d, r, (lo + hi + 1) \div 2, hi)
  ELSE nat_digit(d, r, lo, (lo + hi + 1) \div 2 - 1)

\* the digit floor(r / d) for r < d * Base: `top`, the two leading digits of
\* r, and `lead`, the leading digit of d, bound it from both sides
nat_digit_between(d, r, top, lead) ==
  nat_digit(d, r, top \div (lead + 1),
            IF top \div lead < Base THEN top \div lead ELSE Base - 1)

\* floor(n / d) and n mod d for d > 0, by long division over the digits
\* lo..hi of n, from the highest down; r < d is what is left of the digits
\* above
RECURSIVE nat_divmod_from(_, _, _, _, _)

\* the digit g of the quotient at one digit of n, r the digits above with
\* that digit below them
nat_divmod_digit(d, r, g) ==
  [q |-> << g >>, r |-> IF g = 0 THEN r ELSE nat_sub(r, nat_mul_small(d, g))]

nat_divmod_step(d, r) ==
  nat_divmod_digit(d, r,
                   nat_digit_between(d, r, limb(r, Len(d) + 1) * Base + limb(r, Len(d)),
                                     d[Len(d)]))

nat_divmod_lower(n, d, lo, hi, high) ==
  nat_div_joined(high, nat_divmod_from(n, d, lo, (lo + hi) \div 2, high.r))

nat_divmod_from(n, d, lo, hi, r) ==
  IF lo = hi THEN nat_divmod_step(d, nat_norm(<< n[lo] >> \o r))
  ELSE nat_divmod_lower(n, d, lo, hi, nat_divmod_from(n, d, ((lo + hi) \div 2) + 1, hi, r))

\* the division of the digits of n, none for n = 0
nat_divmod_all(n, d) ==
  IF n = <<>> THEN [q |-> <<>>, r |-> <<>>] ELSE nat_divmod_from(n, d, 1, Len(n), <<>>)

\* the quotient and the remainder of a division whose two sides were taken
\* 2^s times
nat_divmod_unshift(qr, s) == [q |-> nat_norm(qr.q), r |-> nat_shr(qr.r, s)]

nat_divmod_shifted(n, d, s) ==
  nat_divmod_unshift(nat_divmod_all(nat_shl(n, s), nat_shl(d, s)), s)

\* n and d are taken 2^s times, s such that the leading digit of d is at
\* least Base / 2: the quotient is the same, the remainder 2^s times as large
nat_divmod(n, d) == nat_divmod_shifted(n, d, 15 - int_bits(d[Len(d)]))

\* A double other than an infinity or a NaN: (-1)^sign * m * 2^e with m of 53
\* binary digits, or zero.  Doubles are far from the ends of the exponent
\* range here.
Double(sign, m, e) == [sign |-> sign, m |-> m, e |-> e]
DoubleZero == Double(0, <<>>, 0)

\* q, or q + 1 when what was cut off below q rounds up: c is -1, 0, 1 as
\* what was cut off is less than, equal to, more than one half
nat_round_half_even(q, c) ==
  IF c > 0 \/ (c = 0 /\ limb(q, 1) % 2 = 1) THEN nat_add(q, << 1 >>) ELSE q

\* the double m * 2^e for m of 53 binary digits, or of 54 (a power of two)
double_of_digits(sign, m, e) ==
  IF nat_bits(m) > 53 THEN Double(sign, nat_shr(m, 1), e + 1) ELSE Double(sign, m, e)

\* double_round for n of 53 + k binary digits
double_round_at(sign, n, e, k) ==
  IF k <= 0 THEN Double(sign, nat_shl(n, -k), e + k)
  ELSE double_of_digits(sign,
                        nat_round_half_even(nat_shr(n, k),
                                            nat_cmp(nat_low(n, k), nat_shl(<< 1 >>, k - 1))),
                        e + k)

\* the double nearest to (-1)^sign * n * 2^e, a tie to the even one
double_round(sign, n, e) ==
  IF n = <<>> THEN DoubleZero ELSE double_round_at(sign, n, e, nat_bits(n) - 53)

\* float(n) for an integer n
double_of_int(n) == double_round(IF n < 0 THEN 1 ELSE 0, nat_of(IF n < 0 THEN -n ELSE n), 0)

double_neg(a) == IF a.m = <<>> THEN a ELSE Double(1 - a.sign, a.m, a.e)

\* -1, 0, 1 as |a| < |b|, |a| = |b|, |a| > |b|
double_cmp_abs(a, b) ==
  IF a.m = <<>> THEN (IF b.m = <<>> THEN 0 ELSE -1)
  ELSE IF b.m = <<>> THEN 1
  ELSE IF a.e > b.e THEN 1
  ELSE IF a.e < b.e THEN -1
  ELSE nat_cmp(a.m, b.m)

\* -1, 0, 1 for a negative double, a zero, a positive double
double_sgn(a) == IF a.m = <<>> THEN 0 ELSE IF a.sign = 1 THEN -1 ELSE 1

\* -1, 0, 1 as a < b, a = b, a > b
double_cmp(a, b) ==
  IF double_sgn(a) # double_sgn(b) THEN (IF double_sgn(a) > double_sgn(b) THEN 1 ELSE -1)
  ELSE double_sgn(a) * double_cmp_abs(a, b)

\* the double nearest to ((-1)^sa * na + (-1)^sb * nb) * 2^e
double_add_digits(sa, na, sb, nb, e) ==
  double_round(IF sa = sb \/ nat_cmp(na, nb) > 0 THEN sa ELSE sb,
               IF sa = sb THEN nat_add(na, nb)
               ELSE IF nat_cmp(na, nb) >= 0 THEN nat_sub(na, nb)
               ELSE nat_sub(nb, na),
               e)

\* a + b for a and b other than zero, e the smaller of their exponents
double_add_at(a, b, e) ==
  double_add_digits(a.sign, nat_shl(a.m, a.e - e), b.sign, nat_shl(b.m, b.e - e), e)

\* a + b
double_add(a, b) ==
  IF a.m = <<>> THEN b
  ELSE IF b.m = <<>> THEN a
  ELSE double_add_at(a, b, IF a.e < b.e THEN a.e ELSE b.e)

\* a - b
double_sub(a, b) == double_add(a, double_neg(b))

\* a * b
double_mul(a, b) ==
  IF a.m = <<>> \/ b.m = <<>> THEN DoubleZero
  ELSE double_round((a.sign + b.sign) % 2, nat_mul(a.m, b.m), a.e + b.e)

\* the double nearest to a quotient: d.q is the quotient to 57 binary digits
\* or more, and one more digit says whether anything is left over
double_of_quotient(sign, d, e) ==
  double_round(sign, nat_add(nat_mul_small(d.q, 2), IF d.r = <<>> THEN <<>> ELSE << 1 >>), e)

\* a / b for b other than zero
double_div(a, b) ==
  IF a.m = <<>> THEN DoubleZero
  ELSE double_of_quotient(IF a.sign = b.sign THEN 0 ELSE 1,
                          nat_divmod(nat_shl(a.m, 57), b.m), a.e - b.e - 58)

DoubleOne == double_of_int(1)
DoubleTwo == double_of_int(2)
DoubleMinusOne == double_of_int(-1)
DoubleHalf == double_div(DoubleOne, DoubleTwo)

\* a * b + c, rounded once (the fused multiply-add of the processor)
double_fma_at(sign, p, ep, c, e) ==
  double_add_digits(sign, nat_shl(p, ep - e), c.sign, nat_shl(c.m, c.e - e), e)

double_fma(a, b, c) ==
  IF a.m = <<>> \/ b.m = <<>> THEN c
  ELSE IF c.m = <<>> THEN double_mul(a, b)
  ELSE double_fma_at((a.sign + b.sign) % 2, nat_mul(a.m, b.m), a.e + b.e, c,
                     IF a.e + b.e < c.e THEN a.e + b.e ELSE c.e)

\* the integer a double holds, for a whole number from 0 to 2^30
double_to_int(a) ==
  IF a.m = <<>> THEN 0
  ELSE limb(nat_shr(a.m, -a.e), 1) + Base * limb(nat_shr(a.m, -a.e), 2)

\* ---- x ** 0.5 is the C library's pow(x, 0.5) (float_pow calls pow): glibc
\* 2.36 on a processor with fused multiply-add computes exp(0.5 * log(x))
\* from two tables, step by step as below.  It is not the correctly rounded
\* square root for every x (2921 ** 0.5 is one unit in the last place below).

\* log: ln2 in two parts, and the polynomial of log1p
PowLn2hi == Double(0, << 14336, 32244, 14603, 177 >>, -53)
PowLn2lo == Double(0, << 26416, 10126, 19806, 247 >>, -97)
PowA0 == Double(1, << 0, 0, 0, 128 >>, -53)
PowA1 == Double(1, << 21856, 10922, 21845, 170 >>, -53)
PowA2 == Double(0, << 6, 0, 0, 128 >>, -53)
PowA3 == Double(0, << 21838, 12978, 26214, 204 >>, -53)
PowA4 == Double(1, << 9338, 10835, 21845, 170 >>, -53)
PowA5 == Double(1, << 17897, 13968, 9582, 146 >>, -52)
PowA6 == Double(0, << 16323, 5708, 174, 128 >>, -52)

\* log: for each of the 128 intervals of z in [0.7055, 1.4110), 1/c, log(c)
\* and the tail of log(c), c near the centre of the interval
PowLogTab ==
  <<
     [invc |-> Double(0, << 0, 0, 0, 181 >>, -52), logc |-> Double(1, << 18432, 25971, 12811, 177 >>, -54), logctail |-> Double(0, << 22144, 20590, 20624, 213 >>, -100)],
     [invc |-> Double(0, << 0, 0, 0, 180 >>, -52), logc |-> Double(1, << 2048, 32432, 18166, 174 >>, -54), logctail |-> Double(1, << 30496, 12737, 5155, 229 >>, -98)],
     [invc |-> Double(0, << 0, 0, 0, 179 >>, -52), logc |-> Double(1, << 22528, 11914, 23004, 171 >>, -54), logctail |-> Double(1, << 20589, 11116, 2707, 155 >>, -97)],
     [invc |-> Double(0, << 0, 0, 0, 178 >>, -52), logc |-> Double(1, << 30720, 3675, 27318, 168 >>, -54), logctail |-> Double(1, << 26581, 15712, 5010, 180 >>, -101)],
     [invc |-> Double(0, << 0, 0, 0, 177 >>, -52), logc |-> Double(1, << 30720, 10990, 31102, 165 >>, -54), logctail |-> Double(1, << 16096, 9810, 28070, 160 >>, -99)],
     [invc |-> Double(0, << 0, 0, 0, 176 >>, -52), logc |-> Double(1, << 24576, 1080, 1583, 163 >>, -54), logctail |-> Double(0, << 1228, 4249, 24765, 158 >>, -98)],
     [invc |-> Double(0, << 0, 0, 0, 175 >>, -52), logc |-> Double(1, << 10240, 3341, 4290, 160 >>, -54), logctail |-> Double(0, << 2874, 23300, 3023, 226 >>, -102)],
     [invc |-> Double(0, << 0, 0, 0, 174 >>, -52), logc |-> Double(1, << 18432, 10962, 6449, 157 >>, -54), logctail |-> Double(0, << 5216, 3235, 18202, 133 >>, -97)],
     [invc |-> Double(0, << 0, 0, 0, 173 >>, -52), logc |-> Double(1, << 0, 13617, 8054, 154 >>, -54), logctail |-> Double(0, << 146, 10635, 25911, 170 >>, -97)],
     [invc |-> Double(0, << 0, 0, 0, 172 >>, -52), logc |-> Double(1, << 8192, 30146, 9098, 151 >>, -54), logctail |-> Double(0, << 11224, 13166, 27770, 179 >>, -97)],
     [invc |-> Double(0, << 0, 0, 0, 171 >>, -52), logc |-> Double(1, << 2048, 10173, 9576, 148 >>, -54), logctail |-> Double(0, << 12351, 28063, 10322, 174 >>, -98)],
     [invc |-> Double(0, << 0, 0, 0, 171 >>, -52), logc |-> Double(1, << 2048, 10173, 9576, 148 >>, -54), logctail |-> Double(0, << 12351, 28063, 10322, 174 >>, -98)],
     [invc |-> Double(0, << 0, 0, 0, 170 >>, -52), logc |-> Double(1, << 30720, 30622, 9479, 145 >>, -54), logctail |-> Double(1, << 23158, 20647, 26768, 178 >>, -98)],
     [invc |-> Double(0, << 0, 0, 0, 169 >>, -52), logc |-> Double(1, << 6144, 723, 8803, 142 >>, -54), logctail |-> Double(1, << 21508, 20942, 16113, 253 >>, -98)],
     [invc |-> Double(0, << 0, 0, 0, 168 >>, -52), logc |-> Double(1, << 10240, 22359, 7538, 139 >>, -54), logctail |-> Double(0, << 10480, 26373, 32536, 248 >>, -98)],
     [invc |-> Double(0, << 0, 0, 0, 167 >>, -52), logc |-> Double(1, << 18432, 29532, 5679, 136 >>, -54), logctail |-> Double(1, << 23142, 31242, 8979, 181 >>, -97)],
     [invc |-> Double(0, << 0, 0, 0, 166 >>, -52), logc |-> Double(1, << 4096, 17639, 3219, 133 >>, -54), logctail |-> Double(1, << 782, 32232, 12217, 227 >>, -99)],
     [invc |-> Double(0, << 0, 0, 0, 165 >>, -52), logc |-> Double(1, << 20480, 10601, 150, 130 >>, -54), logctail |-> Double(1, << 11647, 15848, 23266, 129 >>, -100)],
     [invc |-> Double(0, << 0, 0, 0, 165 >>, -52), logc |-> Double(1, << 20480, 10601, 150, 130 >>, -54), logctail |-> Double(1, << 11647, 15848, 23266, 129 >>, -100)],
     [invc |-> Double(0, << 0, 0, 0, 164 >>, -52), logc |-> Double(1, << 16384, 23228, 25697, 253 >>, -55), logctail |-> Double(0, << 15495, 22322, 23722, 234 >>, -99)],
     [invc |-> Double(0, << 0, 0, 0, 163 >>, -52), logc |-> Double(1, << 24576, 6072, 17079, 247 >>, -55), logctail |-> Double(0, << 12068, 14605, 6878, 217 >>, -97)],
     [invc |-> Double(0, << 0, 0, 0, 162 >>, -52), logc |-> Double(1, << 28672, 23637, 7197, 241 >>, -55), logctail |-> Double(1, << 32528, 10367, 15677, 185 >>, -98)],
     [invc |-> Double(0, << 0, 0, 0, 161 >>, -52), logc |-> Double(1, << 16384, 22175, 28805, 234 >>, -55), logctail |-> Double(0, << 26651, 30612, 27206, 141 >>, -97)],
     [invc |-> Double(0, << 0, 0, 0, 160 >>, -52), logc |-> Double(1, << 8192, 3893, 16351, 228 >>, -55), logctail |-> Double(0, << 1076, 20799, 25917, 187 >>, -97)],
     [invc |-> Double(0, << 0, 0, 0, 160 >>, -52), logc |-> Double(1, << 8192, 3893, 16351, 228 >>, -55), logctail |-> Double(0, << 1076, 20799, 25917, 187 >>, -97)],
     [invc |-> Double(0, << 0, 0, 0, 159 >>, -52), logc |-> Double(1, << 4096, 26715, 2585, 222 >>, -55), logctail |-> Double(0, << 14223, 25367, 15040, 202 >>, -98)],
     [invc |-> Double(0, << 0, 0, 0, 158 >>, -52), logc |-> Double(1, << 16384, 7425, 20261, 215 >>, -55), logctail |-> Double(0, << 4198, 32667, 14732, 210 >>, -104)],
     [invc |-> Double(0, << 0, 0, 0, 157 >>, -52), logc |-> Double(1, << 12288, 16325, 3824, 209 >>, -55), logctail |-> Double(1, << 16874, 14477, 12691, 172 >>, -97)],
     [invc |-> Double(0, << 0, 0, 0, 157 >>, -52), logc |-> Double(1, << 12288, 16325, 3824, 209 >>, -55), logctail |-> Double(1, << 16874, 14477, 12691, 172 >>, -97)],
     [invc |-> Double(0, << 0, 0, 0, 156 >>, -52), logc |-> Double(1, << 20480, 14824, 18794, 202 >>, -55), logctail |-> Double(1, << 21731, 2435, 18276, 214 >>, -97)],
     [invc |-> Double(0, << 0, 0, 0, 155 >>, -52), logc |-> Double(1, << 20480, 19009, 32385, 195 >>, -55), logctail |-> Double(0, << 31241, 32695, 30461, 221 >>, -97)],
     [invc |-> Double(0, << 0, 0, 0, 154 >>, -52), logc |-> Double(1, << 24576, 1057, 11812, 189 >>, -55), logctail |-> Double(0, << 19032, 25766, 28225, 222 >>, -97)],
     [invc |-> Double(0, << 0, 0, 0, 154 >>, -52), logc |-> Double(1, << 24576, 1057, 11812, 189 >>, -55), logctail |-> Double(0, << 19032, 25766, 28225, 222 >>, -97)],
     [invc |-> Double(0, << 0, 0, 0, 153 >>, -52), logc |-> Double(1, << 20480, 20019, 22591, 182 >>, -55), logctail |-> Double(1, << 25190, 18277, 4522, 135 >>, -98)],
     [invc |-> Double(0, << 0, 0, 0, 152 >>, -52), logc |-> Double(1, << 4096, 24911, 31937, 175 >>, -55), logctail |-> Double(1, << 20537, 15904, 30990, 244 >>, -98)],
     [invc |-> Double(0, << 0, 0, 0, 152 >>, -52), logc |-> Double(1, << 4096, 24911, 31937, 175 >>, -55), logctail |-> Double(1, << 20537, 15904, 30990, 244 >>, -98)],
     [invc |-> Double(0, << 0, 0, 0, 151 >>, -52), logc |-> Double(1, << 12288, 18243, 7063, 169 >>, -55), logctail |-> Double(1, << 23439, 8206, 31278, 134 >>, -97)],
     [invc |-> Double(0, << 0, 0, 0, 150 >>, -52), logc |-> Double(1, << 0, 22935, 13485, 162 >>, -55), logctail |-> Double(0, << 30780, 17002, 13061, 184 >>, -98)],
     [invc |-> Double(0, << 0, 0, 0, 150 >>, -52), logc |-> Double(1, << 0, 22935, 13485, 162 >>, -55), logctail |-> Double(0, << 30780, 17002, 13061, 184 >>, -98)],
     [invc |-> Double(0, << 0, 0, 0, 149 >>, -52), logc |-> Double(1, << 4096, 16445, 18416, 155 >>, -55), logctail |-> Double(0, << 21562, 6734, 25113, 139 >>, -100)],
     [invc |-> Double(0, << 0, 0, 0, 148 >>, -52), logc |-> Double(1, << 28672, 28735, 21835, 148 >>, -55), logctail |-> Double(1, << 17416, 12003, 13504, 164 >>, -97)],
     [invc |-> Double(0, << 0, 0, 0, 147 >>, -52), logc |-> Double(1, << 24576, 10846, 23723, 141 >>, -55), logctail |-> Double(1, << 9110, 12323, 656, 244 >>, -97)],
     [invc |-> Double(0, << 0, 0, 0, 147 >>, -52), logc |-> Double(1, << 24576, 10846, 23723, 141 >>, -55), logctail |-> Double(1, << 9110, 12323, 656, 244 >>, -97)],
     [invc |-> Double(0, << 0, 0, 0, 146 >>, -52), logc |-> Double(1, << 4096, 31137, 24057, 134 >>, -55), logctail |-> Double(0, << 23540, 4560, 9818, 211 >>, -99)],
     [invc |-> Double(0, << 0, 0, 0, 146 >>, -52), logc |-> Double(1, << 4096, 31137, 24057, 134 >>, -55), logctail |-> Double(0, << 23540, 4560, 9818, 211 >>, -99)],
     [invc |-> Double(0, << 0, 0, 0, 145 >>, -52), logc |-> Double(1, << 24576, 25527, 12868, 255 >>, -56), logctail |-> Double(1, << 13298, 14662, 21841, 171 >>, -97)],
     [invc |-> Double(0, << 0, 0, 0, 144 >>, -52), logc |-> Double(1, << 0, 23638, 7197, 241 >>, -56), logctail |-> Double(0, << 60, 21984, 20656, 209 >>, -97)],
     [invc |-> Double(0, << 0, 0, 0, 144 >>, -52), logc |-> Double(1, << 0, 23638, 7197, 241 >>, -56), logctail |-> Double(0, << 60, 21984, 20656, 209 >>, -97)],
     [invc |-> Double(0, << 0, 0, 0, 143 >>, -52), logc |-> Double(1, << 16384, 7863, 31058, 226 >>, -56), logctail |-> Double(1, << 15878, 12479, 12637, 232 >>, -98)],
     [invc |-> Double(0, << 0, 0, 0, 142 >>, -52), logc |-> Double(1, << 24576, 29845, 18868, 212 >>, -56), logctail |-> Double(0, << 10952, 20663, 25815, 169 >>, -97)],
     [invc |-> Double(0, << 0, 0, 0, 142 >>, -52), logc |-> Double(1, << 24576, 29845, 18868, 212 >>, -56), logctail |-> Double(0, << 10952, 20663, 25815, 169 >>, -97)],
     [invc |-> Double(0, << 0, 0, 0, 141 >>, -52), logc |-> Double(1, << 8192, 11363, 3351, 198 >>, -56), logctail |-> Double(0, << 22120, 6750, 28837, 155 >>, -98)],
     [invc |-> Double(0, << 0, 0, 0, 141 >>, -52), logc |-> Double(1, << 8192, 11363, 3351, 198 >>, -56), logctail |-> Double(0, << 22120, 6750, 28837, 155 >>, -98)],
     [invc |-> Double(0, << 0, 0, 0, 140 >>, -52), logc |-> Double(1, << 24576, 5578, 17226, 183 >>, -56), logctail |-> Double(1, << 29658, 4710, 23775, 180 >>, -97)],
     [invc |-> Double(0, << 0, 0, 0, 139 >>, -52), logc |-> Double(1, << 8192, 32268, 27676, 168 >>, -56), logctail |-> Double(0, << 24151, 17292, 2413, 248 >>, -98)],
     [invc |-> Double(0, << 0, 0, 0, 139 >>, -52), logc |-> Double(1, << 8192, 32268, 27676, 168 >>, -56), logctail |-> Double(0, << 24151, 17292, 2413, 248 >>, -98)],
     [invc |-> Double(0, << 0, 0, 0, 138 >>, -52), logc |-> Double(1, << 24576, 11319, 1886, 154 >>, -56), logctail |-> Double(0, << 5087, 6642, 31595, 226 >>, -97)],
     [invc |-> Double(0, << 0, 0, 0, 138 >>, -52), logc |-> Double(1, << 24576, 11319, 1886, 154 >>, -56), logctail |-> Double(0, << 5087, 6642, 31595, 226 >>, -97)],
     [invc |-> Double(0, << 0, 0, 0, 137 >>, -52), logc |-> Double(1, << 0, 23879, 5339, 139 >>, -56), logctail |-> Double(0, << 8969, 27935, 29049, 163 >>, -98)],
     [invc |-> Double(0, << 0, 0, 0, 136 >>, -52), logc |-> Double(1, << 0, 35, 10435, 248 >>, -57), logctail |-> Double(0, << 3729, 1645, 26234, 234 >>, -97)],
     [invc |-> Double(0, << 0, 0, 0, 136 >>, -52), logc |-> Double(1, << 0, 35, 10435, 248 >>, -57), logctail |-> Double(0, << 3729, 1645, 26234, 234 >>, -97)],
     [invc |-> Double(0, << 0, 0, 0, 135 >>, -52), logc |-> Double(1, << 0, 25139, 2933, 218 >>, -57), logctail |-> Double(0, << 28748, 19372, 2539, 228 >>, -98)],
     [invc |-> Double(0, << 0, 0, 0, 135 >>, -52), logc |-> Double(1, << 0, 25139, 2933, 218 >>, -57), logctail |-> Double(0, << 28748, 19372, 2539, 228 >>, -98)],
     [invc |-> Double(0, << 0, 0, 0, 134 >>, -52), logc |-> Double(1, << 16384, 27749, 20835, 187 >>, -57), logctail |-> Double(1, << 8686, 27109, 28952, 231 >>, -97)],
     [invc |-> Double(0, << 0, 0, 0, 134 >>, -52), logc |-> Double(1, << 16384, 27749, 20835, 187 >>, -57), logctail |-> Double(1, << 8686, 27109, 28952, 231 >>, -97)],
     [invc |-> Double(0, << 0, 0, 0, 133 >>, -52), logc |-> Double(1, << 16384, 29693, 31262, 156 >>, -57), logctail |-> Double(0, << 32426, 27213, 2783, 168 >>, -100)],
     [invc |-> Double(0, << 0, 0, 0, 133 >>, -52), logc |-> Double(1, << 16384, 29693, 31262, 156 >>, -57), logctail |-> Double(0, << 32426, 27213, 2783, 168 >>, -100)],
     [invc |-> Double(0, << 0, 0, 0, 132 >>, -52), logc |-> Double(1, << 0, 7408, 2668, 252 >>, -58), logctail |-> Double(1, << 2532, 30972, 153, 204 >>, -97)],
     [invc |-> Double(0, << 0, 0, 0, 132 >>, -52), logc |-> Double(1, << 0, 7408, 2668, 252 >>, -58), logctail |-> Double(1, << 2532, 30972, 153, 204 >>, -97)],
     [invc |-> Double(0, << 0, 0, 0, 131 >>, -52), logc |-> Double(1, << 0, 4011, 25708, 189 >>, -58), logctail |-> Double(1, << 9785, 10229, 13650, 196 >>, -97)],
     [invc |-> Double(0, << 0, 0, 0, 130 >>, -52), logc |-> Double(1, << 0, 25080, 674, 254 >>, -59), logctail |-> Double(1, << 9884, 28071, 31219, 248 >>, -102)],
     [invc |-> Double(0, << 0, 0, 0, 130 >>, -52), logc |-> Double(1, << 0, 25080, 674, 254 >>, -59), logctail |-> Double(1, << 9884, 28071, 31219, 248 >>, -102)],
     [invc |-> Double(0, << 0, 0, 0, 129 >>, -52), logc |-> Double(1, << 0, 22048, 169, 255 >>, -60), logctail |-> Double(1, << 16612, 7092, 2300, 207 >>, -98)],
     [invc |-> Double(0, << 0, 0, 0, 129 >>, -52), logc |-> Double(1, << 0, 22048, 169, 255 >>, -60), logctail |-> Double(1, << 16612, 7092, 2300, 207 >>, -98)],
     [invc |-> Double(0, << 0, 0, 0, 128 >>, -52), logc |-> DoubleZero, logctail |-> DoubleZero],
     [invc |-> Double(0, << 0, 0, 0, 128 >>, -52), logc |-> DoubleZero, logctail |-> DoubleZero],
     [invc |-> Double(0, << 0, 0, 0, 254 >>, -53), logc |-> Double(0, << 0, 27410, 16469, 128 >>, -59), logctail |-> Double(1, << 11240, 13114, 7598, 134 >>, -98)],
     [invc |-> Double(0, << 0, 0, 0, 252 >>, -53), logc |-> Double(0, << 0, 12583, 345, 129 >>, -58), logctail |-> Double(1, << 30674, 3525, 29036, 158 >>, -97)],
     [invc |-> Double(0, << 0, 0, 0, 250 >>, -53), logc |-> Double(0, << 0, 20882, 9364, 194 >>, -58), logctail |-> Double(1, << 3124, 25780, 744, 213 >>, -97)],
     [invc |-> Double(0, << 0, 0, 0, 248 >>, -53), logc |-> Double(0, << 16384, 5070, 1398, 130 >>, -57), logctail |-> Double(0, << 22355, 14819, 18177, 136 >>, -99)],
     [invc |-> Double(0, << 0, 0, 0, 246 >>, -53), logc |-> Double(0, << 0, 10332, 6843, 163 >>, -57), logctail |-> Double(1, << 32040, 27515, 22989, 224 >>, -97)],
     [invc |-> Double(0, << 0, 0, 0, 244 >>, -53), logc |-> Double(0, << 16384, 10559, 21160, 196 >>, -57), logctail |-> Double(1, << 9853, 8372, 26199, 203 >>, -98)],
     [invc |-> Double(0, << 0, 0, 0, 242 >>, -53), logc |-> Double(0, << 16384, 7099, 11727, 230 >>, -57), logctail |-> Double(1, << 10247, 4016, 9161, 211 >>, -98)],
     [invc |-> Double(0, << 0, 0, 0, 241 >>, -53), logc |-> Double(0, << 16384, 13, 10439, 247 >>, -57), logctail |-> Double(1, << 15227, 8082, 17657, 240 >>, -99)],
     [invc |-> Double(0, << 0, 0, 0, 239 >>, -53), logc |-> Double(0, << 24576, 8844, 23791, 140 >>, -56), logctail |-> Double(1, << 7835, 11291, 18805, 169 >>, -97)],
     [invc |-> Double(0, << 0, 0, 0, 237 >>, -53), logc |-> Double(0, << 24576, 20387, 30678, 157 >>, -56), logctail |-> Double(0, << 20183, 19382, 8570, 230 >>, -97)],
     [invc |-> Double(0, << 0, 0, 0, 235 >>, -53), logc |-> Double(0, << 8192, 6959, 9577, 175 >>, -56), logctail |-> Double(1, << 7454, 30906, 9240, 227 >>, -97)],
     [invc |-> Double(0, << 0, 0, 0, 234 >>, -53), logc |-> Double(0, << 16384, 5589, 844, 184 >>, -56), logctail |-> Double(0, << 27954, 21307, 31286, 224 >>, -101)],
     [invc |-> Double(0, << 0, 0, 0, 232 >>, -53), logc |-> Double(0, << 16384, 15026, 19833, 201 >>, -56), logctail |-> Double(0, << 18394, 30074, 17776, 152 >>, -97)],
     [invc |-> Double(0, << 0, 0, 0, 230 >>, -53), logc |-> Double(0, << 24576, 7002, 11042, 219 >>, -56), logctail |-> Double(1, << 26853, 22510, 16896, 156 >>, -98)],
     [invc |-> Double(0, << 0, 0, 0, 229 >>, -53), logc |-> Double(0, << 16384, 888, 8544, 228 >>, -56), logctail |-> Double(0, << 11475, 3253, 6983, 178 >>, -97)],
     [invc |-> Double(0, << 0, 0, 0, 227 >>, -53), logc |-> Double(0, << 8192, 1556, 7398, 246 >>, -56), logctail |-> Double(1, << 17888, 24524, 418, 238 >>, -97)],
     [invc |-> Double(0, << 0, 0, 0, 226 >>, -53), logc |-> Double(0, << 24576, 29623, 8772, 255 >>, -56), logctail |-> Double(1, << 2813, 8002, 21337, 169 >>, -97)],
     [invc |-> Double(0, << 0, 0, 0, 224 >>, -53), logc |-> Double(0, << 24576, 1103, 24122, 136 >>, -55), logctail |-> Double(0, << 2034, 7258, 15843, 143 >>, -97)],
     [invc |-> Double(0, << 0, 0, 0, 223 >>, -53), logc |-> Double(0, << 28672, 31815, 10413, 141 >>, -55), logctail |-> Double(0, << 6452, 2161, 7737, 229 >>, -97)],
     [invc |-> Double(0, << 0, 0, 0, 221 >>, -53), logc |-> Double(0, << 0, 6413, 17796, 150 >>, -55), logctail |-> Double(0, << 13473, 5891, 30131, 156 >>, -99)],
     [invc |-> Double(0, << 0, 0, 0, 220 >>, -53), logc |-> Double(0, << 4096, 24619, 6130, 155 >>, -55), logctail |-> Double(0, << 29321, 18070, 16032, 177 >>, -103)],
     [invc |-> Double(0, << 0, 0, 0, 218 >>, -53), logc |-> Double(0, << 12288, 1639, 17654, 164 >>, -55), logctail |-> Double(0, << 13944, 10747, 3557, 172 >>, -97)],
     [invc |-> Double(0, << 0, 0, 0, 217 >>, -53), logc |-> Double(0, << 12288, 18755, 8087, 169 >>, -55), logctail |-> Double(0, << 32199, 19154, 20387, 177 >>, -97)],
     [invc |-> Double(0, << 0, 0, 0, 215 >>, -53), logc |-> Double(0, << 4096, 32024, 23866, 178 >>, -55), logctail |-> Double(0, << 11896, 22648, 15916, 206 >>, -98)],
     [invc |-> Double(0, << 0, 0, 0, 214 >>, -53), logc |-> Double(0, << 28672, 5866, 16458, 183 >>, -55), logctail |-> Double(1, << 8673, 19256, 17975, 168 >>, -97)],
     [invc |-> Double(0, << 0, 0, 0, 213 >>, -53), logc |-> Double(0, << 20480, 2696, 9782, 188 >>, -55), logctail |-> Double(1, << 17157, 24866, 6209, 227 >>, -98)],
     [invc |-> Double(0, << 0, 0, 0, 211 >>, -53), logc |-> Double(0, << 0, 22130, 31423, 197 >>, -55), logctail |-> Double(1, << 11473, 21970, 30034, 185 >>, -99)],
     [invc |-> Double(0, << 0, 0, 0, 210 >>, -53), logc |-> Double(0, << 0, 14830, 26987, 202 >>, -55), logctail |-> Double(0, << 32623, 12609, 18593, 191 >>, -99)],
     [invc |-> Double(0, << 0, 0, 0, 208 >>, -53), logc |-> Double(0, << 24576, 30997, 20404, 212 >>, -55), logctail |-> Double(1, << 8553, 8364, 18701, 195 >>, -97)],
     [invc |-> Double(0, << 0, 0, 0, 207 >>, -53), logc |-> Double(0, << 20480, 11959, 18273, 217 >>, -55), logctail |-> Double(1, << 25002, 7513, 22069, 225 >>, -99)],
     [invc |-> Double(0, << 0, 0, 0, 206 >>, -53), logc |-> Double(0, << 24576, 28791, 16924, 222 >>, -55), logctail |-> Double(1, << 4790, 12968, 12049, 234 >>, -97)],
     [invc |-> Double(0, << 0, 0, 0, 205 >>, -53), logc |-> Double(0, << 4096, 3552, 16367, 227 >>, -55), logctail |-> Double(1, << 11218, 2860, 12747, 143 >>, -100)],
     [invc |-> Double(0, << 0, 0, 0, 203 >>, -53), logc |-> Double(0, << 4096, 25001, 17654, 237 >>, -55), logctail |-> Double(1, << 12341, 28203, 31915, 215 >>, -97)],
     [invc |-> Double(0, << 0, 0, 0, 202 >>, -53), logc |-> Double(0, << 4096, 32718, 19515, 242 >>, -55), logctail |-> Double(0, << 29744, 16515, 18589, 144 >>, -103)],
     [invc |-> Double(0, << 0, 0, 0, 201 >>, -53), logc |-> Double(0, << 0, 18874, 22199, 247 >>, -55), logctail |-> Double(1, << 3601, 19319, 1109, 209 >>, -103)],
     [invc |-> Double(0, << 0, 0, 0, 200 >>, -53), logc |-> Double(0, << 12288, 22887, 25713, 252 >>, -55), logctail |-> Double(0, << 24368, 5145, 12211, 222 >>, -98)],
     [invc |-> Double(0, << 0, 0, 0, 198 >>, -53), logc |-> Double(0, << 22528, 16538, 17633, 131 >>, -54), logctail |-> Double(0, << 20113, 11738, 29548, 196 >>, -100)],
     [invc |-> Double(0, << 0, 0, 0, 197 >>, -53), logc |-> Double(0, << 24576, 20162, 4277, 134 >>, -54), logctail |-> Double(0, << 27369, 11385, 25132, 184 >>, -97)],
     [invc |-> Double(0, << 0, 0, 0, 196 >>, -53), logc |-> Double(0, << 26624, 1103, 24122, 136 >>, -54), logctail |-> Double(1, << 28700, 18251, 1081, 225 >>, -97)],
     [invc |-> Double(0, << 0, 0, 0, 195 >>, -53), logc |-> Double(0, << 30720, 5977, 11635, 139 >>, -54), logctail |-> Double(0, << 5761, 28490, 27447, 220 >>, -97)],
     [invc |-> Double(0, << 0, 0, 0, 194 >>, -53), logc |-> Double(0, << 26624, 18100, 32357, 141 >>, -54), logctail |-> Double(0, << 15799, 8847, 7093, 229 >>, -97)],
     [invc |-> Double(0, << 0, 0, 0, 193 >>, -53), logc |-> Double(0, << 14336, 23069, 20757, 144 >>, -54), logctail |-> Double(0, << 15082, 29837, 8058, 212 >>, -99)],
     [invc |-> Double(0, << 0, 0, 0, 191 >>, -53), logc |-> Double(0, << 4096, 31161, 31681, 149 >>, -54), logctail |-> Double(0, << 1268, 5280, 29673, 212 >>, -97)],
     [invc |-> Double(0, << 0, 0, 0, 190 >>, -53), logc |-> Double(0, << 24576, 17318, 21447, 152 >>, -54), logctail |-> Double(1, << 15544, 9794, 2539, 199 >>, -97)],
     [invc |-> Double(0, << 0, 0, 0, 189 >>, -53), logc |-> Double(0, << 4096, 28028, 11677, 155 >>, -54), logctail |-> Double(0, << 30664, 25058, 15158, 139 >>, -98)],
     [invc |-> Double(0, << 0, 0, 0, 188 >>, -53), logc |-> Double(0, << 12288, 28262, 2377, 158 >>, -54), logctail |-> Double(0, << 15708, 27661, 27986, 193 >>, -98)],
     [invc |-> Double(0, << 0, 0, 0, 187 >>, -53), logc |-> Double(0, << 26624, 18347, 26320, 160 >>, -54), logctail |-> Double(0, << 24733, 22817, 4315, 199 >>, -99)],
     [invc |-> Double(0, << 0, 0, 0, 186 >>, -53), logc |-> Double(0, << 18432, 1251, 17975, 163 >>, -54), logctail |-> Double(1, << 22133, 4815, 7992, 249 >>, -97)],
     [invc |-> Double(0, << 0, 0, 0, 185 >>, -53), logc |-> Double(0, << 12288, 15406, 10114, 166 >>, -54), logctail |-> Double(1, << 22692, 13845, 548, 241 >>, -97)],
     [invc |-> Double(0, << 0, 0, 0, 184 >>, -53), logc |-> Double(0, << 8192, 3697, 2744, 169 >>, -54), logctail |-> Double(0, << 18265, 713, 31170, 245 >>, -97)],
     [invc |-> Double(0, << 0, 0, 0, 183 >>, -53), logc |-> Double(0, << 20480, 10129, 28637, 171 >>, -54), logctail |-> Double(0, << 16623, 23738, 14263, 253 >>, -98)],
     [invc |-> Double(0, << 0, 0, 0, 182 >>, -53), logc |-> Double(0, << 24576, 16050, 22263, 174 >>, -54), logctail |-> Double(1, << 26076, 4424, 11432, 208 >>, -99)]
  >>

\* the 53 binary digits of the lower end 0x1.6955500000000p-1 of z, and what
\* comes after its leading digit
PowOffM == << 0, 0, 21844, 180 >>
PowOffFrac == << 0, 0, 21844, 52 >>

\* exp: 128 / ln2, 1.5 * 2^52, -ln2 / 128 in two parts, and the polynomial
PowInvLn2N == Double(0, << 766, 19031, 21789, 184 >>, -45)
PowShift == Double(0, << 0, 0, 0, 192 >>, 0)
PowNegLn2hiN == Double(1, << 0, 32244, 14603, 177 >>, -60)
PowNegLn2loN == Double(1, << 15162, 31036, 24170, 231 >>, -99)
PowC2 == Double(0, << 32189, 32767, 32767, 255 >>, -54)
PowC3 == Double(0, << 21564, 10922, 21845, 170 >>, -55)
PowC4 == Double(0, << 11153, 7726, 21847, 170 >>, -57)
PowC5 == Double(0, << 20503, 20297, 17477, 136 >>, -59)

\* exp: 2^(i/128) for i = 0 .. 127 is scale * (1 + tail); the tails
PowExpTail ==
  <<
     DoubleZero,
     Double(0, << 16238, 13585, 27964, 217 >>, -106),
     Double(1, << 23645, 14769, 78, 139 >>, -108),
     Double(1, << 26321, 8462, 31208, 130 >>, -106),
     Double(0, << 30227, 27343, 18760, 230 >>, -107),
     Double(1, << 3834, 18419, 14848, 222 >>, -107),
     Double(0, << 18529, 17357, 23865, 135 >>, -109),
     Double(0, << 21401, 13927, 3985, 133 >>, -106),
     Double(0, << 31597, 15110, 27289, 188 >>, -106),
     Double(0, << 28668, 9723, 21610, 245 >>, -107),
     Double(0, << 7377, 24671, 30965, 245 >>, -112),
     Double(1, << 28171, 4896, 3282, 208 >>, -109),
     Double(1, << 15630, 21599, 22856, 170 >>, -106),
     Double(1, << 27221, 6301, 958, 132 >>, -110),
     Double(1, << 29718, 29611, 9358, 142 >>, -106),
     Double(0, << 21935, 21176, 20367, 134 >>, -107),
     Double(1, << 4936, 21835, 27735, 128 >>, -107),
     Double(1, << 12861, 11196, 32705, 248 >>, -107),
     Double(0, << 21439, 32294, 9776, 220 >>, -107),
     Double(1, << 27430, 27683, 26225, 182 >>, -106),
     Double(0, << 12128, 31860, 13276, 215 >>, -106),
     Double(1, << 14493, 5900, 7691, 255 >>, -107),
     Double(0, << 17293, 2381, 15621, 211 >>, -107),
     Double(0, << 1149, 25032, 26646, 131 >>, -107),
     Double(0, << 10388, 18257, 15351, 180 >>, -106),
     Double(0, << 18557, 25832, 30819, 186 >>, -107),
     Double(0, << 26610, 12351, 7342, 130 >>, -107),
     Double(1, << 2142, 32482, 25068, 181 >>, -106),
     Double(0, << 11057, 23059, 24453, 151 >>, -107),
     Double(1, << 16378, 13535, 1644, 233 >>, -112),
     Double(0, << 2740, 25624, 24073, 217 >>, -107),
     Double(0, << 19343, 5021, 21066, 240 >>, -109),
     Double(0, << 11190, 7009, 13781, 154 >>, -107),
     Double(0, << 29772, 17752, 2055, 178 >>, -107),
     Double(0, << 30794, 15271, 29925, 254 >>, -107),
     Double(1, << 23300, 30492, 3584, 181 >>, -107),
     Double(1, << 20584, 6294, 11191, 146 >>, -106),
     Double(1, << 11662, 13986, 8160, 200 >>, -106),
     Double(1, << 14034, 32040, 18336, 142 >>, -108),
     Double(1, << 6933, 26524, 25702, 200 >>, -106),
     Double(0, << 19565, 20052, 32034, 172 >>, -107),
     Double(1, << 27018, 29776, 18817, 152 >>, -106),
     Double(1, << 2395, 4143, 7741, 197 >>, -110),
     Double(1, << 6683, 20115, 12909, 225 >>, -108),
     Double(0, << 11281, 16773, 4021, 155 >>, -111),
     Double(0, << 25839, 30220, 6180, 179 >>, -106),
     Double(0, << 889, 13634, 13191, 246 >>, -109),
     Double(0, << 4656, 32286, 32312, 159 >>, -106),
     Double(0, << 12208, 30453, 17210, 180 >>, -108),
     Double(0, << 24695, 22185, 30455, 152 >>, -106),
     Double(1, << 9102, 227, 20688, 252 >>, -107),
     Double(1, << 9033, 14631, 31539, 190 >>, -107),
     Double(1, << 14431, 31262, 31514, 198 >>, -108),
     Double(1, << 23798, 22774, 18715, 176 >>, -107),
     Double(0, << 22414, 12795, 21524, 153 >>, -106),
     Double(0, << 6917, 24341, 25308, 220 >>, -108),
     Double(0, << 21513, 17464, 3975, 131 >>, -106),
     Double(0, << 18154, 8243, 7701, 166 >>, -112),
     Double(0, << 16437, 22217, 19352, 161 >>, -106),
     Double(1, << 30367, 17202, 4393, 231 >>, -107),
     Double(1, << 19880, 30686, 20244, 225 >>, -107),
     Double(1, << 27054, 4695, 19938, 162 >>, -107),
     Double(1, << 22616, 28844, 15221, 158 >>, -106),
     Double(0, << 6500, 252, 17066, 184 >>, -110),
     Double(1, << 8744, 32444, 20414, 157 >>, -106),
     Double(1, << 14722, 3689, 19126, 208 >>, -109),
     Double(1, << 10734, 28891, 8126, 155 >>, -109),
     Double(1, << 2129, 10689, 28917, 134 >>, -107),
     Double(1, << 16079, 31924, 32145, 192 >>, -108),
     Double(1, << 32176, 278, 14635, 183 >>, -107),
     Double(1, << 26250, 15531, 25800, 176 >>, -107),
     Double(0, << 21715, 15379, 29485, 132 >>, -106),
     Double(1, << 9501, 29339, 19314, 217 >>, -108),
     Double(0, << 16491, 10447, 13301, 167 >>, -106),
     Double(0, << 27733, 22444, 12166, 175 >>, -109),
     Double(1, << 20290, 24423, 1812, 197 >>, -107),
     Double(1, << 14132, 25206, 9947, 155 >>, -106),
     Double(1, << 32542, 29747, 31248, 130 >>, -107),
     Double(1, << 22382, 12516, 20803, 166 >>, -106),
     Double(0, << 2560, 13853, 13725, 133 >>, -106),
     Double(0, << 27316, 993, 23743, 237 >>, -107),
     Double(1, << 26623, 14731, 22914, 173 >>, -109),
     Double(0, << 24388, 13286, 23053, 223 >>, -108),
     Double(1, << 15747, 20028, 9342, 152 >>, -106),
     Double(1, << 7721, 5848, 9954, 237 >>, -110),
     Double(1, << 14681, 31009, 4069, 225 >>, -109),
     Double(1, << 31146, 17897, 3340, 146 >>, -106),
     Double(1, << 3659, 11981, 10675, 174 >>, -107),
     Double(0, << 20007, 22307, 16368, 141 >>, -108),
     Double(0, << 29627, 16916, 18647, 238 >>, -109),
     Double(1, << 8803, 17604, 5136, 190 >>, -107),
     Double(0, << 12757, 18372, 29211, 216 >>, -107),
     Double(1, << 15125, 10105, 28487, 141 >>, -106),
     Double(0, << 12754, 14812, 12486, 134 >>, -106),
     Double(0, << 23219, 23782, 9745, 163 >>, -107),
     Double(1, << 7604, 12061, 32566, 150 >>, -107),
     Double(0, << 13191, 9622, 27102, 224 >>, -107),
     Double(1, << 23034, 5539, 28221, 131 >>, -106),
     Double(1, << 11962, 11705, 3941, 174 >>, -110),
     Double(1, << 30272, 31565, 4152, 133 >>, -106),
     Double(1, << 4916, 29019, 23504, 198 >>, -109),
     Double(1, << 2613, 22193, 15241, 143 >>, -106),
     Double(0, << 24013, 5311, 32604, 167 >>, -108),
     Double(1, << 6316, 29989, 30703, 141 >>, -106),
     Double(0, << 3251, 24926, 15032, 155 >>, -108),
     Double(0, << 32148, 14655, 3273, 247 >>, -107),
     Double(0, << 22956, 8722, 575, 167 >>, -107),
     Double(0, << 6759, 28828, 14012, 158 >>, -109),
     Double(0, << 6504, 22820, 11441, 187 >>, -109),
     Double(1, << 13778, 1945, 10338, 132 >>, -107),
     Double(1, << 31343, 32767, 13684, 253 >>, -107),
     Double(1, << 10569, 28907, 14008, 128 >>, -106),
     Double(0, << 1959, 19578, 3606, 165 >>, -108),
     Double(1, << 8719, 16512, 18040, 148 >>, -107),
     Double(0, << 4780, 11139, 26947, 242 >>, -107),
     Double(0, << 27467, 22530, 26982, 161 >>, -107),
     Double(1, << 15903, 3944, 21636, 150 >>, -107),
     Double(1, << 3529, 30350, 10980, 201 >>, -107),
     Double(0, << 2259, 16501, 22545, 165 >>, -108),
     Double(0, << 29297, 9018, 6065, 158 >>, -107),
     Double(1, << 4592, 8103, 23626, 255 >>, -107),
     Double(1, << 29821, 17478, 14947, 237 >>, -107),
     Double(0, << 8200, 852, 3825, 246 >>, -107),
     Double(0, << 27442, 1875, 11859, 161 >>, -107),
     Double(0, << 1518, 25507, 4772, 211 >>, -107),
     Double(1, << 25581, 18551, 24299, 241 >>, -107),
     Double(0, << 19869, 6947, 9453, 188 >>, -108),
     Double(0, << 19593, 705, 5893, 152 >>, -110)
  >>

\* exp: the 53 binary digits of the scales
PowExpScale ==
  <<
     << 0, 0, 0, 128 >>,
     << 13109, 21494, 22774, 128 >>,
     << 97, 31983, 12904, 129 >>,
     << 32645, 20700, 3159, 130 >>,
     << 1396, 9771, 26307, 130 >>,
     << 30430, 21435, 16812, 131 >>,
     << 7112, 12523, 7444, 132 >>,
     << 29571, 5517, 30971, 132 >>,
     << 2319, 23027, 21857, 133 >>,
     << 18423, 22244, 12872, 134 >>,
     << 20898, 26023, 4016, 135 >>,
     << 21275, 24573, 28058, 135 >>,
     << 23377, 8228, 19463, 136 >>,
     << 12748, 216, 10999, 137 >>,
     << 11744, 23890, 2666, 138 >>,
     << 3665, 4427, 27235, 138 >>,
     << 20859, 30970, 19168, 139 >>,
     << 3562, 28953, 11236, 140 >>,
     << 19317, 22239, 3439, 141 >>,
     << 23764, 2056, 28546, 141 >>,
     << 14762, 25297, 21020, 142 >>,
     << 22813, 17913, 13632, 143 >>,
     << 3286, 4293, 6382, 144 >>,
     << 23702, 8955, 32038, 144 >>,
     << 25144, 23786, 25065, 145 >>,
     << 9791, 8037, 18233, 146 >>,
     << 31965, 19396, 11541, 147 >>,
     << 25473, 17386, 4991, 148 >>,
     << 24289, 27199, 31351, 148 >>,
     << 22928, 8629, 25087, 149 >>,
     << 779, 19912, 18966, 150 >>,
     << 12118, 21116, 12990, 151 >>,
     << 14101, 5219, 7160, 152 >>,
     << 22577, 30873, 1475, 153 >>,
     << 5887, 25800, 28706, 153 >>,
     << 8177, 16165, 23317, 154 >>,
     << 10699, 28277, 18076, 155 >>,
     << 22630, 23051, 12985, 156 >>,
     << 8183, 27083, 8044, 157 >>,
     << 10469, 1575, 3255, 158 >>,
     << 13346, 6180, 31385, 158 >>,
     << 28, 2393, 26900, 159 >>,
     << 11818, 17390, 22568, 160 >>,
     << 10391, 12961, 18391, 161 >>,
     << 2349, 16579, 14369, 162 >>,
     << 87, 23098, 10503, 163 >>,
     << 15568, 27522, 6794, 164 >>,
     << 21470, 25007, 3243, 165 >>,
     << 10791, 10860, 32619, 165 >>,
     << 23821, 13307, 29386, 166 >>,
     << 11431, 27962, 26313, 167 >>,
     << 26178, 17822, 23402, 168 >>,
     << 20354, 11578, 20653, 169 >>,
     << 4623, 5307, 18067, 170 >>,
     << 10202, 28010, 15644, 171 >>,
     << 18429, 10543, 13387, 172 >>,
     << 21545, 14992, 11295, 173 >>,
     << 18103, 5298, 9370, 174 >>,
     << 8520, 11098, 7612, 175 >>,
     << 23561, 29421, 6022, 176 >>,
     << 21893, 24692, 4602, 177 >>,
     << 17184, 27033, 3352, 178 >>,
     << 8741, 1194, 2274, 179 >>,
     << 10611, 10393, 1367, 180 >>,
     << 15309, 19710, 633, 181 >>,
     << 23231, 27159, 73, 182 >>,
     << 6703, 30922, 32456, 182 >>,
     << 5252, 29347, 32247, 183 >>,
     << 24436, 20952, 32215, 184 >>,
     << 372, 4427, 32361, 185 >>,
     << 26569, 11396, 32685, 186 >>,
     << 23871, 8124, 421, 188 >>,
     << 391, 26582, 1105, 189 >>,
     << 16690, 609, 1972, 190 >>,
     << 20066, 28062, 3020, 191 >>,
     << 6674, 10364, 4253, 192 >>,
     << 19987, 12953, 5670, 193 >>,
     << 18349, 3143, 7273, 194 >>,
     << 4845, 13961, 9062, 195 >>,
     << 26265, 13076, 11039, 196 >>,
     << 8411, 1109, 13205, 197 >>,
     << 17548, 11626, 15560, 198 >>,
     << 30518, 12842, 18106, 199 >>,
     << 32710, 5923, 20844, 200 >>,
     << 17893, 24987, 23774, 201 >>,
     << 21007, 6032, 26899, 202 >>,
     << 20048, 16316, 30218, 203 >>,
     << 1978, 24980, 965, 205 >>,
     << 28816, 1351, 4678, 206 >>,
     << 8995, 13254, 8588, 207 >>,
     << 25957, 30395, 12697, 208 >>,
     << 11571, 22676, 17007, 209 >>,
     << 9565, 25724, 21518, 210 >>,
     << 13144, 9825, 26232, 211 >>,
     << 32191, 10995, 31149, 212 >>,
     << 29562, 32679, 3502, 214 >>,
     << 21421, 12981, 8830, 215 >>,
     << 13926, 21275, 14364, 216 >>,
     << 5627, 28830, 20106, 217 >>,
     << 22842, 7114, 26058, 218 >>,
     << 24135, 26102, 32219, 219 >>,
     << 1610, 24898, 5824, 221 >>,
     << 16850, 8343, 12410, 222 >>,
     << 7689, 14254, 19209, 223 >>,
     << 21148, 15114, 26223, 224 >>,
     << 20602, 16383, 685, 226 >>,
     << 20811, 23727, 8132, 227 >>,
     << 26549, 10253, 15798, 228 >>,
     << 4201, 14815, 23683, 229 >>,
     << 17402, 10939, 31789, 230 >>,
     << 2428, 5135, 7349, 232 >>,
     << 2546, 4123, 15900, 233 >>,
     << 9351, 14839, 24675, 234 >>,
     << 920, 11667, 908, 236 >>,
     << 12933, 1974, 10136, 237 >>,
     << 13408, 26115, 19591, 238 >>,
     << 7007, 26359, 29276, 239 >>,
     << 8489, 10731, 6424, 241 >>,
     << 16374, 20246, 16571, 242 >>,
     << 19587, 30606, 26951, 243 >>,
     << 4314, 17737, 4798, 245 >>,
     << 26609, 23324, 15648, 246 >>,
     << 23079, 23746, 26735, 247 >>,
     << 14999, 28375, 5292, 249 >>,
     << 17728, 14044, 16857, 250 >>,
     << 15892, 23353, 28662, 251 >>,
     << 4312, 829, 7942, 253 >>,
     << 29169, 22302, 20232, 254 >>
  >>

\* log_inline: x = 2^k * z with z in [0.7055, 1.4110), the interval i of z
pow_log_above(x) == nat_cmp(x.m, PowOffM) >= 0
pow_log_k(x) == IF pow_log_above(x) THEN x.e + 53 ELSE x.e + 52
pow_log_i(x) ==
  limb(nat_shr(nat_sub(x.m, IF pow_log_above(x) THEN PowOffM ELSE PowOffFrac), 45), 1)
pow_log_z(x) == Double(0, x.m, x.e - pow_log_k(x))

\* The arithmetic of log_inline and exp_inline in the order the library
\* performs it, one operation a row: << target, operation, operands >>.  add,
\* sub and mul take two operands; fma is a * b + c and fms is a * b - c, each
\* rounded once; exp_tail and exp_scale read the entry of 2^(k / 128).
PowSteps ==
  <<
     \* log_inline: log(x) = hi + lo with x = 2^kd * z, r = z / c - 1
     << "t1", "fma", "kd", "Ln2hi", "logc" >>,
     << "lo1", "fma", "kd", "Ln2lo", "logctail" >>,
     << "r", "fma", "z", "invc", "MinusOne" >>,
     << "ar", "mul", "r", "A0", "A0" >>,
     << "p12", "fma", "r", "A2", "A1" >>,
     << "p34", "fma", "r", "A4", "A3" >>,
     << "t2", "add", "r", "t1", "t1" >>,
     << "ar2", "mul", "r", "ar", "ar" >>,
     << "ar3", "mul", "r", "ar2", "ar2" >>,
     << "lo3", "fms", "ar", "r", "ar2" >>,
     << "d1", "sub", "t1", "t2", "t2" >>,
     << "lo2", "add", "d1", "r", "r" >>,
     << "p56", "fma", "r", "A6", "A5" >>,
     << "hi", "add", "t2", "ar2", "ar2" >>,
     << "q", "fma", "p56", "ar2", "p34" >>,
     << "d2", "sub", "t2", "hi", "hi" >>,
     << "lo4", "add", "d2", "ar2", "ar2" >>,
     << "p", "fma", "ar2", "q", "p12" >>,
     << "s12", "add", "lo1", "lo2", "lo2" >>,
     << "s123", "add", "s12", "lo3", "lo3" >>,
     << "s", "add", "s123", "lo4", "lo4" >>,
     << "lo", "fma", "ar3", "p", "s" >>,
     << "loghi", "add", "hi", "lo", "lo" >>,
     << "d3", "sub", "hi", "loghi", "loghi" >>,
     << "loglo", "add", "d3", "lo", "lo" >>,
     \* pow: y * log(x) = ehi + elo
     << "ehi", "mul", "y", "loghi", "loghi" >>,
     << "e1", "fms", "loghi", "y", "ehi" >>,
     << "elo", "fma", "y", "loglo", "e1" >>,
     \* exp_inline: exp(ehi + elo) = 2^(k / 128) * exp(er), k the whole number nearest to ehi * 128 / ln2
     << "kr", "fma", "ehi", "InvLn2N", "Shift" >>,
     << "k", "sub", "kr", "Shift", "Shift" >>,
     << "r1", "fma", "k", "NegLn2hiN", "ehi" >>,
     << "r2", "fma", "k", "NegLn2loN", "r1" >>,
     << "er", "add", "elo", "r2", "r2" >>,
     << "c23", "fma", "er", "C3", "C2" >>,
     << "tail", "exp_tail", "k", "k", "k" >>,
     << "tr", "add", "er", "tail", "tail" >>,
     << "rr", "mul", "er", "er", "er" >>,
     << "c45", "fma", "er", "C5", "C4" >>,
     << "t", "fma", "c23", "rr", "tr" >>,
     << "r4", "mul", "rr", "rr", "rr" >>,
     << "tmp", "fma", "c45", "r4", "t" >>,
     << "scale", "exp_scale", "k", "k", "k" >>,
     << "result", "fma", "tmp", "scale", "scale" >>
  >>

\* the values log_inline starts from: y, x = 2^kd * z, the entry T of z in the
\* table of log, and the constants
pow_registers(y, z, kd, T) ==
  [y |-> y, z |-> z, kd |-> kd, invc |-> T.invc, logc |-> T.logc, logctail |-> T.logctail,
   MinusOne |-> DoubleMinusOne, Ln2hi |-> PowLn2hi, Ln2lo |-> PowLn2lo,
   A0 |-> PowA0, A1 |-> PowA1, A2 |-> PowA2, A3 |-> PowA3, A4 |-> PowA4, A5 |-> PowA5, A6 |-> PowA6,
   InvLn2N |-> PowInvLn2N, Shift |-> PowShift, NegLn2hiN |-> PowNegLn2hiN, NegLn2loN |-> PowNegLn2loN,
   C2 |-> PowC2, C3 |-> PowC3, C4 |-> PowC4, C5 |-> PowC5]

\* one operation on doubles
pow_op(op, a, b, c) ==
  IF op \in {"add", "sub"} THEN double_add(a, IF op = "sub" THEN double_neg(b) ELSE b)
  ELSE double_fma(a, b, IF op = "mul" THEN DoubleZero
                        ELSE IF op = "fms" THEN double_neg(c) ELSE c)

\* the value a row computes: 2^(k / 128) is scale * (1 + tail) of the entry
\* k % 128, times 2^(k div 128)
pow_value(regs, op, a, b, c) ==
  IF op = "exp_tail" THEN PowExpTail[(double_to_int(regs[a]) % 128) + 1]
  ELSE IF op = "exp_scale"
  THEN Double(0, PowExpScale[(double_to_int(regs[a]) % 128) + 1],
              (double_to_int(regs[a]) \div 128) - 52)
  ELSE pow_op(op, regs[a], regs[b], regs[c])

\* the values after the rows i .. j, those of the first half taken first
RECURSIVE pow_run(_, _, _)
pow_rest(regs, i, j) == IF DOMAIN regs = {} THEN regs ELSE pow_run(regs, i, j)

pow_run(regs, i, j) ==
  IF i = j
  THEN (PowSteps[i][1] :> pow_value(regs, PowSteps[i][2], PowSteps[i][3],
                                    PowSteps[i][4], PowSteps[i][5])) @@ regs
  ELSE pow_rest(pow_run(regs, i, (i + j) \div 2), ((i + j) \div 2) + 1, j)

\* exp_inline returns 1.0 for ehi below 2^-54
pow_result(regs) ==
  IF regs["ehi"].m = <<>> \/ regs["ehi"].e + 52 < -54 THEN DoubleOne ELSE regs["result"]

\* pow(x, y) for a double x >= 1 and 0 < y <= 1
double_pow(x, y) ==
  pow_result(pow_run(pow_registers(y, pow_log_z(x), double_of_int(pow_log_k(x)),
                                   PowLogTab[pow_log_i(x) + 1]),
                     1, Len(PowSteps)))

\* n ** 0.5 for an integer n >= 0: float_pow returns 0.0 for 0 and 1.0 for 1
\* itself and calls pow for the rest.  With `kept`, the value of a small n is
\* read from SmallPowHalves, where it was computed once.
RECURSIVE pow_half(_, _)
RECURSIVE pow_halves(_)

\* 1 ** 0.5 .. n ** 0.5, in this order
pow_halves(n) == IF n = 0 THEN <<>> ELSE Append(pow_halves(n - 1), pow_half(n, FALSE))

\* those of the small counts
SmallPowHalves == pow_halves(32)

pow_half(n, kept) ==
  IF n = 0 THEN DoubleZero
  ELSE IF n = 1 THEN DoubleOne
  ELSE IF kept /\ n <= Len(SmallPowHalves) THEN SmallPowHalves[n]
  ELSE double_pow(double_of_int(n), DoubleHalf)

int_pow_half(n) == pow_half(n, FALSE)

\* the double written p/q in decimal (p integer, q a power of ten)
double_of_ratio(p, q) == double_div(double_of_int(p), double_of_int(q))

\* the integer q, one more when what was cut off below q rounds up: at most
\* two digits
int_round_half_even(q, c) ==
  limb(q, 1) + Base * limb(q, 2)
  + (IF c > 0 \/ (c = 0 /\ limb(q, 1) % 2 = 1) THEN 1 ELSE 0)

\* the integer nearest to n * 2^(-k), a tie to the even one
nat_round_scaled(n, k) ==
  IF k <= 0 THEN int_round_half_even(nat_shl(n, -k), -1)
  ELSE int_round_half_even(nat_shr(n, k), nat_cmp(nat_low(n, k), nat_shl(<< 1 >>, k - 1)))

\* round(a * 10^digits) as Python's round(a, digits) takes it: the integer
\* nearest to the exact value of the double a times scale = 10^digits, a tie
\* to the even one; negative for negative a
double_round_scaled(a, scale) ==
  IF a.m = <<>> THEN 0
  ELSE IF a.sign = 1 THEN -nat_round_scaled(nat_mul(a.m, nat_of(scale)), -a.e)
  ELSE nat_round_scaled(nat_mul(a.m, nat_of(scale)), -a.e)

\* lexical_overlap_score, as the three counts it is computed from: the score
\* is inter / ((q ** 0.5) * (t ** 0.5)), and 0.0 when q = 0 or t = 0
lexical_overlap_score(query, text) ==
  LET qs == find_words(lower(query), 1)
      ts == find_words(lower(text), 1)
  IN [inter |-> IF qs = {} \/ ts = {} THEN 0 ELSE Cardinality(qs \cap ts),
      q |-> Cardinality(qs), t |-> Cardinality(ts)]

\* len(s) ** 0.5 for a count n >= 1
count_pow_half(n) == pow_half(n, TRUE)

\* inter / (roots[1] * roots[2])
score_quotient(inter, roots) ==
  double_div(double_of_int(inter), double_mul(roots[1], roots[2]))

\* the double inter / ((len(q) ** 0.5) * (len(t) ** 0.5)) of a score, 0.0 when
\* q = 0 or t = 0
score_double(a) ==
  IF a.q = 0 \/ a.t = 0 THEN DoubleZero
  ELSE score_quotient(a.inter, [i \in 1..2 |-> count_pow_half(<< a.q, a.t >>[i])])

\* scores[1] > scores[2]
first_gt(scores) == double_cmp(scores[1], scores[2]) > 0

\* score a > score b, as doubles
score_gt(a, b) == first_gt([i \in 1..2 |-> score_double(<< a, b >>[i])])

\* the double 0.12
Twelve == double_of_ratio(12, 100)

\* score a >= 0.12, as doubles
score_ge_twelve(a) == double_cmp(score_double(a), Twelve) >= 0

\* a regular expression of the policy lists: a literal, with or without (?i)
\* re.search(rx, s, flags): `ignorecase` is the re.IGNORECASE flag of the call
re_search(rx, s, ignorecase) ==
  IF rx.icase \/ ignorecase THEN contains(lower(s), lower(rx.lit))
  ELSE contains(s, rx.lit)


\* ------------------------------------------------------------- policies

\* load_policies: DEFAULT_POLICY with the top-level keys of the supplied
\* dictionary laid over it.  The lists and messages are deployment data; the
\* model keeps the defaults' structure with short lists and short messages.

Msg_off_topic      == << "N", "o", " ", "i", "n", "f", "o", "." >>
Msg_off_domain     == << "O", "u", "t", " ", "o", "f", " ", "s", "c", "o", "p", "e", "." >>
Msg_low_confidence == << "L", "o", "w", " ", "c", "o", "n", "f", "i", "d", "e", "n", "c", "e", "." >>
Msg_legal          == << "N", "o", "t", " ", "l", "e", "g", "a", "l", " ", "a", "d", "v", "i", "c", "e", "." >>

Rx(lit, icase) == [lit |-> lit, icase |-> icase]

\* DEFAULT_POLICY: blocked_regex entries all start with (?i); all-lowercase topics
PolicyDefault ==
  [ disclosures    |-> [legal |-> Msg_legal],
    blocked_topics |-> << << "p", "o", "l", "i", "t", "i", "c", "s" >>, << "s", "p", "o", "r", "t", "s" >> >>,
    blocked_regex  |-> << Rx(<< "t", "r", "u", "m", "p" >>, TRUE), Rx(<< "v", "o", "t", "e" >>, TRUE) >>,
    banned_phrases |-> << Rx(<< "y", "o", "u", " ", "c", "a", "n", "n", "o", "t", " ", "l", "o", "s", "e" >>, FALSE), Rx(<< "g", "u", "a", "r", "a", "n", "t", "e", "e", "d", " ", "v", "i", "c", "t", "o", "r", "y" >>, FALSE) >>,
    answer_style   |-> [max_quotes |-> 6, max_reasoning_bullets |-> 5],
    retrieval      |-> [min_distance |-> 100],
    memory         |-> [max_turns |-> 8, summary_max_chars |-> 800],
    fallback       |-> [off_topic_message |-> Msg_off_topic,
                        off_domain_message |-> Msg_off_domain,
                        low_confidence_message |-> Msg_low_confidence] ]

\* a policies_dict from the settings store that overrides answer_style,
\* retrieval, memory, blocked_topics and blocked_regex
PolicyCustom ==
  [ PolicyDefault EXCEPT
      !.blocked_topics = << << "S", "p", "o", "r", "t", "s" >> >>,
      !.blocked_regex  = << Rx(<< "v", "o", "t", "e" >>, FALSE) >>,
      !.answer_style   = [max_quotes |-> 1, max_reasoning_bullets |-> 1],
      !.retrieval      = [min_distance |-> 50],
      !.memory         = [max_turns |-> 2, summary_max_chars |-> 36] ]

PolicyPool == {PolicyDefault, PolicyCustom}

\* a policies_dict from the settings store as load_policies takes it, values
\* unchecked: a pattern with a capital letter and without (?i), and negative
\* maxima in answer_style
PolicyUnchecked ==
  [ PolicyDefault EXCEPT
      !.blocked_topics = << << "p", "o", "l", "i", "t", "i", "c", "s" >> >>,
      !.blocked_regex  = << Rx(<< "V", "o", "t", "e" >>, FALSE) >>,
      !.answer_style   = [max_quotes |-> -1, max_reasoning_bullets |-> -1] ]

AgentPolicyPool == PolicyPool \cup {PolicyUnchecked}

\* ------------------------------------------------------- agent helpers

\* RAGAgent._is_blocked: "blocked_regex", "blocked_topic" or "" (None)
is_blocked(pol, question) ==
  LET ql == lower(question)
  IN IF \E i \in 1..Len(pol.blocked_regex) : re_search(pol.blocked_regex[i], ql, FALSE)
     THEN "blocked_regex"
     ELSE IF \E i \in 1..Len(pol.blocked_topics) : contains(ql, pol.blocked_topics[i])
     THEN "blocked_topic"
     ELSE ""

\* alias_map of _normalize_query_aliases, in its iteration order
AliasMap ==
  << [canon |-> << "c", "l", "i", "e", "n", "t", " ", "x" >>, variants |-> << << "c", "l", "i", "e", "n", "t", " ", "x" >>, << "c", "l", "i", "e", "n", "t", "x" >>, << "c", "l", "i", "e", "n", "t", "-", "x" >> >>],
     [canon |-> << "c", "l", "i", "e", "n", "t", " ", "c" >>, variants |-> << << "c", "l", "i", "e", "n", "t", " ", "c" >>, << "c", "l", "i", "e", "n", "t", "c" >>, << "c", "l", "i", "e", "n", "t", "-", "c" >> >>],
     [canon |-> << "c", "l", "i", "e", "n", "t", " ", "b" >>, variants |-> << << "c", "l", "i", "e", "n", "t", " ", "b" >>, << "c", "l", "i", "e", "n", "t", "b" >>, << "c", "l", "i", "e", "n", "t", "-", "b" >> >>] >>

alias_named(ql, a) == \E i \in 1..Len(a.variants) : contains(ql, a.variants[i])

\* _normalize_query_aliases
normalize_query_aliases(q) ==
  LET q2 == replace_char(replace_char(q, "_", SP), "-", SP)
      lw == lower(q2)
      named == {i \in 1..Len(AliasMap) : alias_named(lw, AliasMap[i])}
  IN IF named = {} THEN q2
     ELSE LET first == CHOOSE i \in named : \A j \in named : i <= j
          IN q2 \o << SP, "(" >> \o AliasMap[first].canon \o << ")" >>

\* entity_tokens of _ensure_entity_inclusion and _low_relevance: three ifs in
\* the order c, x, b, each overwriting the list
entity_tokens_of(question) ==
  LET ql == lower(question)
  IN IF alias_named(ql, AliasMap[3]) THEN AliasMap[3].variants
     ELSE IF alias_named(ql, AliasMap[1]) THEN AliasMap[1].variants
     ELSE IF alias_named(ql, AliasMap[2]) THEN AliasMap[2].variants
     ELSE <<>>

\* hits_entity
hits_entity(d, toks) ==
  \E i \in 1..Len(toks) :
    contains(lower(d.source), toks[i]) \/ contains(lower(d.page_content), toks[i])

\* a filter that returns what is left even when nothing is left
filter_offtopic_docs_unguarded(pol, docs) ==
  SelectSeq(docs, LAMBDA d :
    ~ \E i \in 1..Len(pol.blocked_regex) :
        re_search(pol.blocked_regex[i], d.page_content, TRUE))

\* RAGAgent._filter_offtopic_docs
filter_offtopic_docs(pol, docs) ==
  LET out == SelectSeq(docs, LAMBDA d :
               ~ \E i \in 1..Len(pol.blocked_regex) :
                   re_search(pol.blocked_regex[i], d.page_content, TRUE))
  IN IF out # <<>> THEN out ELSE docs

\* list.sort(key=score, reverse=True): stable, descending
RECURSIVE sorted_desc(_, _)
sorted_desc(query, docs) ==
  IF docs = <<>> THEN <<>>
  ELSE LET rest == sorted_desc(query, SubSeq(docs, 1, Len(docs) - 1))
           d == docs[Len(docs)]
           sd == lexical_overlap_score(query, d.page_content)
           \* d goes behind every element whose score is not smaller
           k == Cardinality({i \in 1..Len(rest) :
                   ~ score_gt(sd, lexical_overlap_score(query, rest[i].page_content))})
       IN SubSeq(rest, 1, k) \o << d >> \o SubSeq(rest, k + 1, Len(rest))

reversed_list(l) == [i \in 1..Len(l) |-> l[Len(l) + 1 - i]]

\* a rerank that sorts ascending and reverses: equal scores change places
rerank_with_lexical_reversed_ascending(query, docs) ==
  IF docs = <<>> THEN docs ELSE sorted_desc(query, reversed_list(docs))

\* RAGAgent._rerank_with_lexical
rerank_with_lexical(query, docs) == IF docs = <<>> THEN docs ELSE sorted_desc(query, docs)

\* de-duplication loop of _ensure_entity_inclusion over must + docs
RECURSIVE dedup_by_key(_, _, _)
dedup_by_key(lst, seen, ordered) ==
  IF lst = <<>> THEN ordered
  ELSE LET d == Head(lst)
           key == << d.source, d.page >>
       IN IF key \in seen THEN dedup_by_key(Tail(lst), seen, ordered)
          ELSE dedup_by_key(Tail(lst), seen \cup {key}, Append(ordered, d))

\* _ensure_entity_inclusion from `if not must: return docs` on
entity_front_load(must, docs) ==
  IF must = <<>> THEN docs ELSE dedup_by_key(must \o docs, {}, <<>>)

\* must = [d for d in docs if hits_entity(d)]
entity_must(toks, docs) == SelectSeq(docs, LAMBDA d : hits_entity(d, toks))

\* _low_relevance whose entity override looks at every candidate
low_relevance_before_search_any_rank(question, reranked_docs) ==
  LET toks == entity_tokens_of(question)
      top  == lexical_overlap_score(question, reranked_docs[1].page_content)
  IN IF reranked_docs = <<>> THEN "low"
     ELSE IF toks # <<>> /\ \E i \in 1..Len(reranked_docs) : hits_entity(reranked_docs[i], toks)
     THEN "ok"
     ELSE IF score_ge_twelve(top)
     THEN "ok"
     ELSE "search"

\* RAGAgent._low_relevance up to the similarity search:
\* "low" (return True), "ok" (return False) or "search"
low_relevance_before_search(question, reranked_docs) ==
  LET toks == entity_tokens_of(question)
      top5 == first_items(reranked_docs, 5)
      top  == lexical_overlap_score(question, reranked_docs[1].page_content)
  IN IF reranked_docs = <<>> THEN "low"
     ELSE IF toks # <<>> /\ \E i \in 1..Len(top5) : hits_entity(top5[i], toks)
     THEN "ok"
     ELSE IF score_ge_twelve(top)
     THEN "ok"
     ELSE "search"

\* RAGAgent._low_relevance after similarity_search_with_score returned `hits`
\* (pairs of a document and a score, of which `for _, s in hits` reads the
\* scores only; a score is a number or something else)
low_relevance_after_search(pol, hits) ==
  LET th == pol.retrieval.min_distance
      good == SelectSeq(hits, LAMBDA s : s.num /\ s.val <= th)
  IN Len(good) = 0

\* a variant that treats a failed distance check as low relevance
low_relevance_search_raised_is_low == TRUE

\* RAGAgent._low_relevance when similarity_search_with_score raises:
\* `except Exception: return False`
low_relevance_search_raised == FALSE

\* an add that trims to the first max_turns turns
memory_add_keeps_oldest(lst, user_q, answer, max_turns) ==
  LET l2 == Append(lst, [q |-> user_q, a |-> summarize_text(answer, 2000)])
  IN IF Len(l2) > max_turns THEN first_items(l2, max_turns) ELSE l2

\* ConversationMemory.add on the list kept for one conversation id
memory_add(lst, user_q, answer, max_turns) ==
  LET l2 == Append(lst, [q |-> user_q, a |-> summarize_text(answer, 2000)])
  IN IF Len(l2) > max_turns THEN last_items(l2, max_turns) ELSE l2

\* ConversationMemory.as_context
as_context(turns, summary_max_chars) ==
  IF turns = <<>> THEN <<>>
  ELSE summarize_text(
         join(<<NL>>, [i \in 1..Len(turns) |->
                         << "[", "T", "u", "r", "n", " " >> \o int_str(i) \o << "]", " ", "Q", ":", " " >> \o turns[i].q
                           \o << "\n", "A", ":", " " >> \o turns[i].a]),
         summary_max_chars)

\* enriched_q of query
enriched_query(qn, mem_ctx) ==
  IF mem_ctx = <<>> THEN qn ELSE qn \o << "\n", "\n", "[", "C", "o", "n", "v", "e", "r", "s", "a", "t", "i", "o", "n", " ", "c", "o", "n", "t", "e", "x", "t", "]", "\n" >> \o mem_ctx

\* ------------------------------------------------- generated text, JSON

\* A JSON member of the decoded object: absent from the object, null, a list
\* or a string.
J_absent  == [k |-> "absent", v |-> <<>>]
J_null    == [k |-> "null",   v |-> <<>>]
J_list(x) == [k |-> "list",   v |-> x]
J_str(x)  == [k |-> "str",    v |-> x]

Obj(answer_text, quotes, reasoning_outline, used_documents, policy_flags, disclaimer) ==
  [answer_text |-> answer_text, quotes |-> quotes,
   reasoning_outline |-> reasoning_outline, used_documents |-> used_documents,
   policy_flags |-> policy_flags, disclaimer |-> disclaimer]

EmptyObj == Obj(J_absent, J_absent, J_absent, J_absent, J_absent, J_absent)

Quote(text, source) == [quote |-> text, source |-> source]

\* The text returned by the generation capability, by what json.loads and
\* re.search(r"\{.*\}", raw, DOTALL) make of it:
\*   whole: "object" (the text is a JSON object), "other" (valid JSON that is
\*          not an object), "invalid" (json.loads raises JSONDecodeError)
\*   span:  "none" (no brace-delimited span), "object" (the span from the first
\*          "{" to the last "}" is a JSON object), "invalid" (it is not JSON)
RawText(whole, span, obj) == [whole |-> whole, span |-> span, obj |-> obj]

\* dict.get(key, []) for a member holding a list
get_list(m) == IF m.k = "absent" THEN <<>> ELSE m.v

\* the dictionary built when no brace-delimited span is found
degraded_answer(pol) ==
  Obj(J_str(pol.fallback.off_topic_message), J_list(<<>>), J_list(<<>>),
      J_list(<<>>), J_list(<<>>), J_null)

\* query, "Parse": json.loads(raw), else json.loads of the brace span, else
\* the degraded dictionary.  exc is the exception that leaves query, if any.
parse_raw(pol, raw) ==
  IF raw.whole = "object" THEN [exc |-> "", dict |-> TRUE, parsed |-> raw.obj]
  ELSE IF raw.whole = "other" THEN [exc |-> "", dict |-> FALSE, parsed |-> EmptyObj]
  ELSE IF raw.span = "none" THEN [exc |-> "", dict |-> TRUE, parsed |-> degraded_answer(pol)]
  ELSE IF raw.span = "object" THEN [exc |-> "", dict |-> TRUE, parsed |-> raw.obj]
  ELSE [exc |-> "JSONDecodeError", dict |-> FALSE, parsed |-> EmptyObj]

\* blob = " \n".join([str(answer_text)] + [quote texts])
blob_of(parsed) ==
  join(<< SP, NL >>,
       << (IF parsed.answer_text.k = "null" THEN << "N", "o", "n", "e" >> ELSE parsed.answer_text.v) >>
       \o [i \in 1..Len(get_list(parsed.quotes)) |-> get_list(parsed.quotes)[i].quote])

\* the banned phrases the blob matches (re.search(bp, blob, re.IGNORECASE))
banned_hits(pol, parsed) ==
  {i \in 1..Len(pol.banned_phrases) : re_search(pol.banned_phrases[i], blob_of(parsed), TRUE)}

\* query, "scrub" (lines 704-711).  policy_flags is `parsed.get("policy_flags",
\* []) or []`: the list inside `parsed` when that list is non-empty, a fresh
\* list otherwise; the flag is appended to it once per matching phrase.
\* A non-empty string is kept as it is, and has no append: the first
\* matching phrase raises AttributeError.
scrub_parsed(pol, parsed) ==
  LET aliased == parsed.policy_flags.k = "list" /\ parsed.policy_flags.v # <<>>
      text == parsed.policy_flags.k = "str" /\ parsed.policy_flags.v # <<>>
      n == Cardinality(banned_hits(pol, parsed))
      flags == (IF aliased THEN parsed.policy_flags.v ELSE <<>>)
               \o [i \in 1..n |-> "banned_phrase_detected"]
  IN [exc |-> IF text /\ n > 0 THEN "AttributeError" ELSE "",
      policy_flags |-> IF text THEN parsed.policy_flags ELSE J_list(flags),
      parsed |->
        [parsed EXCEPT
           !.policy_flags = IF aliased THEN J_list(flags) ELSE @,
           !.answer_text = IF n > 0 THEN J_str(pol.fallback.off_topic_message) ELSE @,
           !.quotes = IF n > 0 THEN J_list(<<>>) ELSE @,
           !.reasoning_outline = IF n > 0 THEN J_list(<<>>) ELSE @]]

\* finalize that forgets to truncate and to clear used_documents
finalize_parsed_as_is(pol, parsed) ==
  [parsed EXCEPT
     !.disclaimer = J_str(pol.disclosures.legal),
     !.quotes = J_list(get_list(parsed.quotes)),
     !.reasoning_outline = J_list(get_list(parsed.reasoning_outline))]

\* parsed.get(key, [])[:n] for any integer n (a negative n cuts the last -n
\* items off): a list stays a list, a string a string
get_slice(m, n) ==
  IF m.k = "str" THEN J_str(slice_to(m.v, n)) ELSE J_list(slice_to(get_list(m), n))

\* query, lines 713-719: disclaimer, truncation, used_documents
finalize_parsed(pol, parsed) ==
  LET quotes == get_slice(parsed.quotes, pol.answer_style.max_quotes)
  IN [parsed EXCEPT
        !.disclaimer = J_str(pol.disclosures.legal),
        !.quotes = quotes,
        !.reasoning_outline =
           get_slice(parsed.reasoning_outline, pol.answer_style.max_reasoning_bullets),
        !.used_documents = IF quotes.v = <<>> THEN J_list(<<>>) ELSE @]

\* the exception raised between json decoding and the call of _log, if any:
\* a decoded value that is no dict has no .get; a null "quotes" cannot be
\* iterated and the characters of a string "quotes" have no .get; a string
\* "policy_flags" has no append; a null "reasoning_outline" cannot be sliced
\* pr is what parse_raw gave, sc what scrub_parsed made of pr.parsed
exception_before_log(pr, sc) ==
  IF pr.exc # "" THEN pr.exc
  ELSE IF ~ pr.dict THEN "AttributeError"
  ELSE IF pr.parsed.quotes.k = "null" THEN "TypeError"
  ELSE IF pr.parsed.quotes.k = "str" /\ pr.parsed.quotes.v # <<>> THEN "AttributeError"
  ELSE IF sc.exc # "" THEN sc.exc
  ELSE IF sc.parsed.reasoning_outline.k = "null" THEN "TypeError"
  ELSE ""

\* the exception raised by memory.add after _log wrote its record, if any:
\* a null "answer_text" has no len() in summarize_text
exception_after_log(sc) ==
  IF sc.parsed.answer_text.k = "null" THEN "TypeError" ELSE ""

\* the exception raised between json decoding and the return, if any
post_parse_exception(pol, pr) ==
  LET sc == scrub_parsed(pol, pr.parsed)
  IN IF exception_before_log(pr, sc) # "" THEN exception_before_log(pr, sc)
     ELSE exception_after_log(sc)

\* the dictionary returned on the blocked and the low-relevance paths
fallback_json(pol, ans, flag) ==
  Obj(J_str(ans), J_list(<<>>), J_list(<<>>), J_list(<<>>), J_list(<< flag >>),
      J_str(pol.disclosures.legal))

\* human_answer = parsed.get("answer_text", "")
human_answer_of(parsed) == parsed.answer_text.v

\* {q.get("source") for q in parsed.get("quotes", []) if q.get("source")}
sources_of(parsed) ==
  {get_list(parsed.quotes)[i].source : i \in {j \in 1..Len(get_list(parsed.quotes)) :
                                                get_list(parsed.quotes)[j].source # <<>>}}

\* list(a set of strings): its elements once each, in the order of their
\* hashes, which is another one from process to process
lists_of(set) ==
  {l \in [1..Cardinality(set) -> set] :
     \A i, j \in 1..Cardinality(set) : l[i] = l[j] => i = j}


\* ------------------------------------------------------- the other parts

VARIABLES
  policies,         \* RAGAgent.policies, as load_policies returned it
  memory,           \* ConversationMemory.turns: conversation id -> list of turns
  pc,               \* where the running call of query is
  question,         \* argument of query
  conversation_id,  \* argument of query
  return_raw_json,  \* argument of query
  qn,               \* the alias-normalised question
  enriched_q,       \* the text given to the retriever
  ctx_docs,         \* the context documents
  toks_left,        \* _ensure_entity_inclusion: entity tokens still to search
  must,             \* _ensure_entity_inclusion: entity hits found so far
  raw,              \* the text the generation capability returned
  logged_flags,     \* policy_flags of the record written by _log (J_absent: none written)
  result,           \* the dictionary query returned
  exc,              \* the exception query raised
  calls,            \* capability calls made by the running call of query
  ncalls,           \* calls of query so far
  thrown,           \* capabilities that raised during the running call of query
  path              \* which return statement was taken

agent_vars == << policies, memory, pc, question, conversation_id, return_raw_json, qn, enriched_q,
                 ctx_docs, toks_left, must, raw, logged_flags, result, exc, calls,
                 ncalls, thrown, path >>

VARIABLES
  g_policies,   \* RAGAgent.policies of the agent whose gate is run
  g_question,   \* _low_relevance: question
  g_docs,       \* _low_relevance: reranked_docs
  g_pc,         \* where the call of _low_relevance is
  g_low,        \* what _low_relevance returned
  g_searches,   \* calls of similarity_search_with_score it made
  g_hits        \* what the search returned: none yet, raised, or the scores

gate_vars == << g_policies, g_question, g_docs, g_pc, g_low, g_searches, g_hits >>

VARIABLES
  c_policies,   \* RAGAgent.policies of the agent that prepares the candidates
  c_query,      \* qn, the alias-normalised question
  c_docs,       \* what retriever.invoke returned
  c_pc,         \* where query is between retriever.invoke and _low_relevance
  c_filtered,   \* what _filter_offtopic_docs returned
  c_reranked,   \* what _rerank_with_lexical returned
  c_toks_left,  \* _ensure_entity_inclusion: entity tokens still to search
  c_must,       \* _ensure_entity_inclusion: entity hits found so far
  c_extra,      \* what the supplementary searches returned so far, in order
  c_searches,   \* calls of similarity_search made
  c_raised,     \* a supplementary search raised
  c_out         \* what _ensure_entity_inclusion returned

cand_vars == << c_policies, c_query, c_docs, c_pc, c_filtered, c_reranked,
                c_toks_left, c_must, c_extra, c_searches, c_raised, c_out >>

VARIABLES
  m_max_turns,  \* ConversationMemory.max_turns
  m_cache,      \* ConversationMemory.cache: conversation id -> list of turns
  m_added,      \* every turn given to add so far, per conversation id, in order
  m_nadds       \* calls of add so far

mem_vars == << m_max_turns, m_cache, m_added, m_nadds >>

VARIABLES
  t_max_turns,  \* ConversationMemory.max_turns
  t_heap,       \* the list objects, by identity
  t_cache,      \* ConversationMemory.cache: conversation id -> list object (0: no key)
  t_init,       \* the logs before the concurrent adds
  t_pc,         \* per thread: the next step of its call of add
  t_conv,       \* per thread: conv_id
  t_lst,        \* per thread: the local lst, a list object
  t_slice       \* per thread: the evaluated lst[-self.max_turns:], a list object

thread_vars == << t_max_turns, t_heap, t_cache, t_init, t_pc, t_conv, t_lst, t_slice >>

VARIABLES
  s_lexical,    \* calculate_confidence_score: lexical_score, in hundredths
  s_distances,  \* distance_scores, in hundredths
  s_entity,     \* entity_match
  s_citations,  \* citation_count
  s_docs,       \* doc_count
  s_pc,         \* "call" before the function ran, "done" after
  s_score,      \* the returned score, in thousandths
  s_level       \* the returned level

score_vars == << s_lexical, s_distances, s_entity, s_citations, s_docs, s_pc,
                 s_score, s_level >>

VARIABLES
  b_test,       \* the benchmark test handed to score_response
  b_response,   \* the response handed to score_response
  b_clock,      \* the reading of the UTC clock
  b_results     \* the results returned by the calls of score_response so far

grade_vars == << b_test, b_response, b_clock, b_results >>

VARIABLES
  d_policies,   \* RAGAgent.policies of the agent both entry points start from
  d_turns,      \* the turns of the conversation before the call
  d_question,   \* the question both entry points are asked
  d_env,        \* what each capability answers when it is called
  d_query,      \* the outcome of query(question)
  d_debug       \* the outcome of query_debug(question)

debug_vars == << d_policies, d_turns, d_question, d_env, d_query, d_debug >>

other_than_chunk == << agent_vars, gate_vars, cand_vars, mem_vars, thread_vars, score_vars, grade_vars, debug_vars >>

vars == << chunk_vars, agent_vars, gate_vars, cand_vars, mem_vars, thread_vars, score_vars, grade_vars, debug_vars >>

ConvIds == {"default", "repl"}

NoResult == [answer |-> <<>>, json |-> EmptyObj]
NoRaw == RawText("invalid", "none", EmptyObj)
ZeroCalls == [retriever |-> 0, similarity_search |-> 0,
              similarity_search_with_score |-> 0, llm |-> 0]

\* the locals of query before a call
AgentLocalsClear ==
  /\ question = <<>>
  /\ conversation_id = "default"
  /\ return_raw_json = TRUE
  /\ qn = <<>>
  /\ enriched_q = <<>>
  /\ ctx_docs = <<>>
  /\ toks_left = <<>>
  /\ must = <<>>
  /\ raw = NoRaw
  /\ logged_flags = J_absent
  /\ result = NoResult
  /\ exc = ""
  /\ calls = ZeroCalls
  /\ thrown = {}
  /\ path = ""

\* no agent is running
AgentIdle ==
  /\ policies = PolicyDefault
  /\ memory = [c \in ConvIds |-> <<>>]
  /\ pc = "off"
  /\ ncalls = 0
  /\ AgentLocalsClear

\* no chunking is running
ChunkIdle ==
  /\ elements = <<>>
  /\ options = [max_tokens |-> 6, overlap_tokens |-> 0, respect_headings |-> TRUE,
                keep_tables_intact |-> TRUE, combine_short_elements |-> TRUE,
                min_element_length |-> 4]
  /\ enc = FALSE
  /\ pos = 1
  /\ cs = EmptyBuffer
  /\ phase = "off"
  /\ run = 1
  /\ prev_chunks = <<>>

\* no gate is running
GateIdle ==
  /\ g_policies = PolicyDefault
  /\ g_question = <<>>
  /\ g_docs = <<>>
  /\ g_pc = "off"
  /\ g_low = FALSE
  /\ g_searches = 0
  /\ g_hits = [k |-> "none", v |-> <<>>]

\* no candidates are being prepared
CandIdle ==
  /\ c_policies = PolicyDefault
  /\ c_query = <<>>
  /\ c_docs = <<>>
  /\ c_pc = "off"
  /\ c_filtered = <<>>
  /\ c_reranked = <<>>
  /\ c_toks_left = <<>>
  /\ c_must = <<>>
  /\ c_extra = <<>>
  /\ c_searches = 0
  /\ c_raised = FALSE
  /\ c_out = <<>>

\* no memory is in use on its own
MemIdle ==
  /\ m_max_turns = 8
  /\ m_cache = << >>
  /\ m_added = [c \in ConvIds |-> <<>>]
  /\ m_nadds = 0

Threads == { "t1", "t2" }

\* no thread is in add
ThreadsIdle ==
  /\ t_max_turns = 8
  /\ t_heap = << >>
  /\ t_cache = [c \in ConvIds |-> 0]
  /\ t_init = [c \in ConvIds |-> <<>>]
  /\ t_pc = [t \in Threads |-> "off"]
  /\ t_conv = [t \in Threads |-> "default"]
  /\ t_lst = [t \in Threads |-> 0]
  /\ t_slice = [t \in Threads |-> 0]

\* no confidence score is being calculated
ScoreIdle ==
  /\ s_lexical = 0
  /\ s_distances = <<>>
  /\ s_entity = FALSE
  /\ s_citations = 0
  /\ s_docs = 0
  /\ s_pc = "off"
  /\ s_score = 0
  /\ s_level = ""

\* no response is being graded
GradeIdle ==
  /\ b_test = <<>>
  /\ b_response = <<>>
  /\ b_clock = 0
  /\ b_results = <<>>

\* no pair of calls is being compared
DebugIdle ==
  /\ d_policies = <<>>
  /\ d_turns = <<>>
  /\ d_question = <<>>
  /\ d_env = <<>>
  /\ d_query = <<>>
  /\ d_debug = <<>>

\* ------------------------------------------------------ chunker: inputs

MaxElems == 3

El(id, type, text, html) ==
  [element_id |-> id, type |-> type, text |-> text, table_html |-> html]

Html == << "<", "t", ">" >>

\* element categories of the partitioner
TypeTitle == << "T", "i", "t", "l", "e" >>
TypeNarrativeText == << "N", "a", "r", "r", "a", "t", "i", "v", "e", "T", "e", "x", "t" >>
TypeTable == << "T", "a", "b", "l", "e" >>
TypeTableChunk == << "T", "a", "b", "l", "e", "C", "h", "u", "n", "k" >>

ElemPool ==
  { El(<<"h">>, TypeTitle,         << "H", "d" >>,                          <<>>),
    El(<<"a">>, TypeNarrativeText, << "a", "a", "a" >>,                     <<>>),
    El(<<"b">>, TypeNarrativeText, << "b", "b", "b", "b", "b" >>,           <<>>),
    El(<<"s">>, TypeNarrativeText, << "a", "a", ".", SP, "a", "a", "." >>,  <<>>),
    El(<<"t">>, TypeTable,         << "x", SP, "y" >>,                      Html),
    El(<<"u">>, TypeTableChunk,    << "x", SP, "y" >>,                      <<>>),
    El(<<"n">>, TypeNarrativeText, << "c", "c" >>,                          Html) }

OptionPool ==
  [ max_tokens             : {6, 20},
    overlap_tokens         : {0, 2},
    respect_headings       : BOOLEAN,
    keep_tables_intact     : BOOLEAN,
    combine_short_elements : BOOLEAN,
    min_element_length     : {4} ]

SeqsUpTo(S, n) == UNION { [1..k -> S] : k \in 1..n }

\* source_info as parse_and_chunk_file builds it: filename, filetype and the
\* digest of the file; the second is the same document stored under another name
SourceFirst ==
  [filename |-> << "a", ".", "p", "d", "f" >>, filetype |-> << "p", "d", "f" >>, sha256 |-> << "d", "1" >>]
SourceAgain ==
  [filename |-> << "b", ".", "p", "d", "f" >>, filetype |-> << "p", "d", "f" >>, sha256 |-> << "d", "1" >>]

\* ----------------------------------------------------- chunker: actions

ChunkInit ==
  /\ elements \in SeqsUpTo(ElemPool, MaxElems)
  /\ options \in OptionPool
  /\ enc \in BOOLEAN
  /\ pos = 1
  /\ cs = start_buffer(SourceFirst)
  /\ phase = "loop"
  /\ run = 1
  /\ prev_chunks = <<>>
  /\ AgentIdle
  /\ GateIdle
  /\ CandIdle
  /\ MemIdle
  /\ ThreadsIdle
  /\ ScoreIdle
  /\ GradeIdle
  /\ DebugIdle

\* for el in elements: ...
ProcessElement ==
  /\ phase = "loop"
  /\ pos <= Len(elements)
  /\ cs' = process_element(cs, options, enc, elements[pos], pos)
  /\ pos' = pos + 1
  /\ UNCHANGED << elements, options, enc, phase, run, prev_chunks >>
  /\ UNCHANGED other_than_chunk

\* flush_chunk(force=True); return chunks
FinalFlush ==
  /\ phase = "loop"
  /\ pos > Len(elements)
  /\ cs' = flush_chunk(cs, options, enc, TRUE, "final")
  /\ phase' = "done"
  /\ UNCHANGED << elements, options, enc, pos, run, prev_chunks >>
  /\ UNCHANGED other_than_chunk

\* chunk_elements called again with the same elements and options
\* (re-indexing of an unchanged document) in the same process: the caller
\* keeps the list the first call returned, every local starts afresh, and
\* source_info names the document as it is stored now
CallAgain ==
  /\ phase = "done"
  /\ run = 1
  /\ prev_chunks' = cs.chunks
  /\ run' = 2
  /\ cs' = start_buffer(SourceAgain)
  /\ pos' = 1
  /\ phase' = "loop"
  /\ UNCHANGED << elements, options, enc >>
  /\ UNCHANGED other_than_chunk

ChunkNext == ProcessElement \/ FinalFlush \/ CallAgain



SpecChunk == ChunkInit /\ [][ChunkNext]_vars

\* --------------------------------------------------------- agent: inputs

MaxCalls == 2

Doc(source, page, page_content) ==
  [source |-> source, page |-> page, page_content |-> page_content]

D_c  == Doc(<< "c", ".", "p", "d", "f" >>, 1, << "c", "l", "i", "e", "n", "t", " ", "c", " ", "f", "e", "e" >>)
D_t  == Doc(<< "t", ".", "p", "d", "f" >>, 1, << "t", "a", "x", " ", "f", "e", "e", " ", "d", "u", "e" >>)
D_t2 == Doc(<< "t", ".", "p", "d", "f" >>, 1, << "f", "e", "e" >>)
D_v  == Doc(<< "v", ".", "p", "d", "f" >>, 1, << "v", "o", "t", "e", " ", "t", "a", "x" >>)
D_z  == Doc(<< "z", ".", "p", "d", "f" >>, 1, << "z", "z" >>)
D_cc == Doc(<< "c", "l", "i", "e", "n", "t", "c", ".", "p", "d", "f" >>, 2, << "z", "z" >>)

\* what retriever.invoke may return
RetrievalPool ==
  { <<>>, << D_t >>, << D_z >>, << D_v >>, << D_z, D_t >>, << D_v, D_t >>,
    << D_z, D_c >>, << D_z, D_cc >>, << D_t, D_t2 >> }

\* what vectordb.similarity_search(tok, k=3) may return
EntitySearchPool == { <<>>, << D_z, D_cc >> }

\* a distance, in hundredths; num is FALSE for a score that is no number
Score(val) == [num |-> TRUE, val |-> val]
NoScore == [num |-> FALSE, val |-> 0]

\* the scores of what vectordb.similarity_search_with_score(question, k=3)
\* may return
ScorePool ==
  { <<>>, << Score(40) >>, << Score(50) >>, << Score(100) >>, << Score(120) >>,
    << NoScore >>, << Score(120), Score(51) >>, << Score(120), NoScore, Score(50) >> }

QuestionPool ==
  { << "S", "p", "o", "r", "t", "s", " ", "V", "o", "t", "e" >>,
    << "s", "p", "o", "r", "t", "s", " ", "l", "a", "w" >>,
    << "c", "l", "i", "e", "n", "t", "c", " ", "f", "e", "e" >>,
    << "t", "a", "x", " ", "f", "e", "e" >> }

Q_fee  == Quote(<< "f", "e", "e", " ", "i", "s", " ", "d", "u", "e" >>, << "c", ".", "p", "d", "f" >>)
Q_term == Quote(<< "s", "e", "e", " ", "t", "e", "r", "m", "s" >>, << "t", ".", "p", "d", "f" >>)
Q_bad  == Quote(<< "G", "u", "a", "r", "a", "n", "t", "e", "e", "d", " ", "v", "i", "c", "t", "o", "r", "y" >>, << "c", ".", "p", "d", "f" >>)
B_1 == << "b", "1" >>
B_2 == << "b", "2" >>
A_fee == << "f", "e", "e", " ", "i", "s", " ", "d", "u", "e" >>
A_bad == << "Y", "o", "u", " ", "c", "a", "n", "n", "o", "t", " ", "l", "o", "s", "e" >>

Obj_plain ==
  Obj(J_str(A_fee), J_list(<< Q_fee >>), J_list(<< B_1 >>), J_list(<< << "c", ".", "p", "d", "f" >> >>),
      J_list(<<>>), J_null)
Obj_long ==
  Obj(J_str(A_fee), J_list(<< Q_fee, Q_term >>), J_list(<< B_1, B_2 >>),
      J_list(<< << "c", ".", "p", "d", "f" >>, << "t", ".", "p", "d", "f" >> >>), J_list(<< "note" >>), J_absent)
Obj_unquoted ==
  Obj(J_str(A_fee), J_list(<<>>), J_list(<< B_1 >>), J_list(<< << "t", ".", "p", "d", "f" >> >>),
      J_absent, J_absent)
Obj_banned ==
  Obj(J_str(A_bad), J_list(<< Q_fee >>), J_list(<< B_1 >>), J_list(<< << "c", ".", "p", "d", "f" >> >>),
      J_list(<<>>), J_absent)
Obj_banned_flagged ==
  Obj(J_str(A_bad), J_list(<< Q_fee >>), J_list(<< B_1 >>), J_list(<< << "c", ".", "p", "d", "f" >> >>),
      J_list(<< "note" >>), J_absent)
Obj_banned_quote ==
  Obj(J_str(A_fee), J_list(<< Q_bad >>), J_null, J_list(<< << "c", ".", "p", "d", "f" >> >>),
      J_absent, J_absent)
Obj_null_quotes ==
  Obj(J_str(A_fee), J_null, J_list(<< B_1 >>), J_list(<<>>), J_list(<<>>), J_absent)
Obj_null_answer ==
  Obj(J_null, J_list(<< Q_fee >>), J_list(<< B_1 >>), J_list(<< << "c", ".", "p", "d", "f" >> >>),
      J_list(<< "note" >>), J_absent)
Obj_text_flags ==
  Obj(J_str(A_fee), J_list(<< Q_fee >>), J_list(<< B_1 >>), J_list(<< << "c", ".", "p", "d", "f" >> >>),
      J_str(<< "n", "o", "t", "e" >>), J_absent)
Obj_banned_text_flags ==
  Obj(J_str(A_bad), J_list(<< Q_fee >>), J_list(<< B_1 >>), J_list(<< << "c", ".", "p", "d", "f" >> >>),
      J_str(<< "n", "o", "t", "e" >>), J_absent)

\* what llm.invoke(messages).content may be
RawPool ==
  { RawText("object", "object", Obj_plain),
    RawText("object", "object", Obj_long),
    RawText("object", "object", Obj_unquoted),
    RawText("object", "object", Obj_banned),
    RawText("object", "object", Obj_banned_flagged),
    RawText("object", "object", Obj_banned_quote),
    RawText("object", "object", Obj_null_quotes),
    RawText("object", "object", Obj_null_answer),
    RawText("object", "object", Obj_text_flags),
    RawText("object", "object", Obj_banned_text_flags),
    RawText("object", "object", EmptyObj),
    RawText("other", "none", EmptyObj),
    RawText("invalid", "object", Obj_long),
    RawText("invalid", "invalid", EmptyObj),
    RawText("invalid", "none", EmptyObj) }

\* the arguments of a call of query: every question under every conversation
\* id for the decoded answer, and one call for the answer and its sources
QueryArgsPool ==
  { [question |-> q, conversation_id |-> c, return_raw_json |-> TRUE] :
      q \in QuestionPool, c \in ConvIds }
  \cup { [question |-> << "t", "a", "x", " ", "f", "e", "e" >>,
          conversation_id |-> "default", return_raw_json |-> FALSE] }

\* -------------------------------------------------------- agent: actions

AgentInit ==
  /\ policies \in AgentPolicyPool
  /\ memory = [c \in ConvIds |-> <<>>]
  /\ pc = "idle"
  /\ ncalls = 0
  /\ AgentLocalsClear
  /\ ChunkIdle
  /\ GateIdle
  /\ CandIdle
  /\ MemIdle
  /\ ThreadsIdle
  /\ ScoreIdle
  /\ GradeIdle
  /\ DebugIdle

other_than_agent == << chunk_vars, gate_vars, cand_vars, mem_vars, thread_vars, score_vars, grade_vars, debug_vars >>

\* the locals of query and of its helpers are gone when query is left
LocalsGone ==
  /\ qn' = <<>>
  /\ enriched_q' = <<>>
  /\ ctx_docs' = <<>>
  /\ toks_left' = <<>>
  /\ must' = <<>>

\* self._log(...); self.memory.add(conversation_id, question, ans); return {...}
Return(conv, q, ans, res, flags, p) ==
  /\ pc' = "returned"
  /\ path' = p
  /\ logged_flags' = flags
  /\ result' = res
  /\ memory' = [memory EXCEPT ![conv] = memory_add(@, q, ans, policies.memory.max_turns)]
  /\ exc' = ""
  /\ LocalsGone

\* an exception leaves query
Raise(e) ==
  /\ pc' = "raised"
  /\ exc' = e
  /\ LocalsGone
  /\ UNCHANGED << memory, result, path, logged_flags >>

\* an exception leaves query after _log wrote its record
RaiseLogged(e, flags) ==
  /\ pc' = "raised"
  /\ exc' = e
  /\ logged_flags' = flags
  /\ LocalsGone
  /\ UNCHANGED << memory, result, path >>

ReturnLowRelevance ==
  Return(conversation_id, question, policies.fallback.off_topic_message,
         [answer |-> policies.fallback.off_topic_message,
          json |-> fallback_json(policies, policies.fallback.off_topic_message,
                                 "low_relevance")],
         J_list(<< "low_relevance" >>), "low_relevance")

\* query from the return of _ensure_entity_inclusion to the next capability
\* call: _low_relevance up to its search, then the return or the LLM call
AfterInclusion(docs) ==
  LET g == low_relevance_before_search(qn, docs)
  IN IF g = "low" THEN ReturnLowRelevance
     ELSE /\ pc' = IF g = "ok" THEN "generate" ELSE "score_search"
          /\ ctx_docs' = docs
          /\ toks_left' = <<>>
          /\ must' = <<>>
          /\ UNCHANGED << qn, enriched_q, memory, result, exc, path, logged_flags >>

\* query(question, conversation_id, return_raw_json) up to retriever.invoke
QueryBegin ==
  /\ pc = "idle"
  /\ ncalls < MaxCalls
  /\ \E args \in QueryArgsPool :
       LET q == args.question
           conv == args.conversation_id
           blocked == is_blocked(policies, q)
           ans == policies.fallback.off_domain_message
           n == normalize_query_aliases(q)
       IN /\ question' = q
          /\ conversation_id' = conv
          /\ return_raw_json' = args.return_raw_json
          /\ IF blocked # ""
             THEN Return(conv, q, ans,
                         [answer |-> ans, json |-> fallback_json(policies, ans, blocked)],
                         J_list(<< blocked >>), "blocked")
             ELSE /\ qn' = n
                  /\ enriched_q' =
                       enriched_query(n, as_context(memory[conv],
                                                    policies.memory.summary_max_chars))
                  /\ pc' = "retrieve"
                  /\ UNCHANGED << ctx_docs, toks_left, must, memory, result, exc, path,
                                  logged_flags >>
  /\ ncalls' = ncalls + 1
  /\ calls' = ZeroCalls
  /\ UNCHANGED << policies, raw >>
  /\ UNCHANGED thrown
  /\ UNCHANGED other_than_agent

\* retriever.invoke returns; filter, rerank, and _ensure_entity_inclusion up
\* to its first similarity_search
Retrieve ==
  /\ pc = "retrieve"
  /\ calls' = [calls EXCEPT !.retriever = @ + 1]
  /\ \E docs \in RetrievalPool :
       LET r == rerank_with_lexical(qn, filter_offtopic_docs(policies, docs))
           toks == entity_tokens_of(qn)
           m == entity_must(toks, r)
       IN IF toks = <<>>
          THEN AfterInclusion(r)
          ELSE IF m # <<>>
          THEN AfterInclusion(entity_front_load(m, r))
          ELSE /\ pc' = "entity_search"
               /\ ctx_docs' = r
               /\ toks_left' = toks
               /\ must' = <<>>
               /\ UNCHANGED << qn, enriched_q, memory, result, exc, path, logged_flags >>
  /\ UNCHANGED << policies, question, conversation_id, return_raw_json, raw, ncalls >>
  /\ UNCHANGED thrown
  /\ UNCHANGED other_than_agent

\* retriever.invoke raises
RetrieveFails ==
  /\ pc = "retrieve"
  /\ calls' = [calls EXCEPT !.retriever = @ + 1]
  /\ Raise("retriever")
  /\ UNCHANGED << policies, question, conversation_id, return_raw_json, raw, ncalls >>
  /\ thrown' = thrown \cup {"retriever"}
  /\ UNCHANGED other_than_agent

\* vectordb.similarity_search(tok, k=3) returns for the next entity token
EntitySearch ==
  /\ pc = "entity_search"
  /\ calls' = [calls EXCEPT !.similarity_search = @ + 1]
  /\ \E extra \in EntitySearchPool :
       LET must2 == must \o entity_must(entity_tokens_of(qn), extra)
       IN IF Len(toks_left) > 1
          THEN /\ must' = must2
               /\ toks_left' = Tail(toks_left)
               /\ UNCHANGED << pc, qn, enriched_q, ctx_docs, memory, result, exc, path,
                               logged_flags >>
          ELSE AfterInclusion(entity_front_load(must2, ctx_docs))
  /\ UNCHANGED << policies, question, conversation_id, return_raw_json, raw, ncalls >>
  /\ UNCHANGED thrown
  /\ UNCHANGED other_than_agent

\* a supplementary search whose exception leaves query
EntitySearchFails_propagating ==
  /\ pc = "entity_search"
  /\ calls' = [calls EXCEPT !.similarity_search = @ + 1]
  /\ Raise("similarity_search")
  /\ UNCHANGED << policies, question, conversation_id, return_raw_json, raw, ncalls >>
  /\ thrown' = thrown \cup {"similarity_search"}
  /\ UNCHANGED other_than_agent

\* vectordb.similarity_search raises: `except Exception: pass`
EntitySearchFails ==
  /\ pc = "entity_search"
  /\ calls' = [calls EXCEPT !.similarity_search = @ + 1]
  /\ AfterInclusion(entity_front_load(must, ctx_docs))
  /\ UNCHANGED << policies, question, conversation_id, return_raw_json, raw, ncalls >>
  /\ thrown' = thrown \cup {"similarity_search"}
  /\ UNCHANGED other_than_agent

\* vectordb.similarity_search_with_score returns inside _low_relevance
ScoreSearch ==
  /\ pc = "score_search"
  /\ calls' = [calls EXCEPT !.similarity_search_with_score = @ + 1]
  /\ \E hits \in ScorePool :
       IF low_relevance_after_search(policies, hits)
       THEN ReturnLowRelevance
       ELSE /\ pc' = "generate"
            /\ UNCHANGED << qn, enriched_q, ctx_docs, toks_left, must, memory, result,
                            exc, path, logged_flags >>
  /\ UNCHANGED << policies, question, conversation_id, return_raw_json, raw, ncalls >>
  /\ UNCHANGED thrown
  /\ UNCHANGED other_than_agent

\* vectordb.similarity_search_with_score raises: `except Exception: return False`
ScoreSearchFails ==
  /\ pc = "score_search"
  /\ calls' = [calls EXCEPT !.similarity_search_with_score = @ + 1]
  /\ IF low_relevance_search_raised
     THEN ReturnLowRelevance
     ELSE /\ pc' = "generate"
          /\ UNCHANGED << qn, enriched_q, ctx_docs, toks_left, must, memory, result,
                          exc, path, logged_flags >>
  /\ UNCHANGED << policies, question, conversation_id, return_raw_json, raw, ncalls >>
  /\ thrown' = thrown \cup {"similarity_search_with_score"}
  /\ UNCHANGED other_than_agent

\* llm.invoke returns; parse, scrub, finalize, log, remember, return
Generate ==
  /\ pc = "generate"
  /\ calls' = [calls EXCEPT !.llm = @ + 1]
  /\ \E r \in RawPool :
       LET pr == parse_raw(policies, r)
           sc == scrub_parsed(policies, pr.parsed)
           e == exception_before_log(pr, sc)
           parsed == finalize_parsed(policies, sc.parsed)
       IN /\ raw' = r
          /\ IF e # "" THEN Raise(e)
             ELSE IF exception_after_log(sc) # ""
             THEN RaiseLogged(exception_after_log(sc), sc.policy_flags)
             ELSE \E used_sources \in lists_of(sources_of(parsed)) :
                    Return(conversation_id, question, human_answer_of(parsed),
                           IF return_raw_json
                           THEN [answer |-> human_answer_of(parsed), json |-> parsed]
                           ELSE [answer |-> human_answer_of(parsed),
                                 sources |-> used_sources],
                           sc.policy_flags, "generated")
  /\ UNCHANGED << policies, question, conversation_id, return_raw_json, ncalls >>
  /\ UNCHANGED thrown
  /\ UNCHANGED other_than_agent

\* llm.invoke raises
GenerateFails ==
  /\ pc = "generate"
  /\ calls' = [calls EXCEPT !.llm = @ + 1]
  /\ Raise("llm")
  /\ UNCHANGED << policies, question, conversation_id, return_raw_json, raw, ncalls >>
  /\ thrown' = thrown \cup {"llm"}
  /\ UNCHANGED other_than_agent

\* the caller has the result (or the exception); the agent waits for the next
\* call with its memory as the call left it
NextCall ==
  /\ pc \in {"returned", "raised"}
  /\ pc' = "idle"
  /\ question' = <<>>
  /\ conversation_id' = "default"
  /\ return_raw_json' = TRUE
  /\ raw' = NoRaw
  /\ logged_flags' = J_absent
  /\ result' = NoResult
  /\ exc' = ""
  /\ calls' = ZeroCalls
  /\ path' = ""
  /\ UNCHANGED << policies, memory, ncalls, qn, enriched_q, ctx_docs, toks_left, must >>
  /\ thrown' = {}
  /\ UNCHANGED other_than_agent

\* main(), the command /clear between two questions:
\* agent.memory.cache.pop(conversation_id, None)
ClearConversation ==
  /\ pc = "idle"
  /\ memory' = [memory EXCEPT !["repl"] = <<>>]
  /\ UNCHANGED << policies, pc, question, conversation_id, return_raw_json, qn, enriched_q, ctx_docs,
                  toks_left, must, raw, logged_flags, result, exc, calls, ncalls,
                  thrown, path >>
  /\ UNCHANGED other_than_agent

AgentNext ==
  \/ QueryBegin
  \/ ClearConversation
  \/ Retrieve
  \/ RetrieveFails
  \/ EntitySearch
  \/ EntitySearchFails
  \/ ScoreSearch
  \/ ScoreSearchFails
  \/ Generate
  \/ GenerateFails
  \/ NextCall

SpecQuery == AgentInit /\ [][AgentNext]_vars

\* ------------------------------------------------ the relevance gate alone

\* five candidates that neither name an entity nor share a word with a question
D_z1 == Doc(<< "z", ".", "p", "d", "f" >>, 1, << "z", "z" >>)
D_z2 == Doc(<< "z", ".", "p", "d", "f" >>, 2, << "z", "z" >>)
D_z3 == Doc(<< "z", ".", "p", "d", "f" >>, 3, << "z", "z" >>)
D_z4 == Doc(<< "z", ".", "p", "d", "f" >>, 4, << "z", "z" >>)
D_z5 == Doc(<< "z", ".", "p", "d", "f" >>, 5, << "z", "z" >>)
D_b  == Doc(<< "b", ".", "p", "d", "f" >>, 1, << "C", "l", "i", "e", "n", "t", "-", "B", " ", "t", "e", "r", "m", "s" >>)

\* bodies of 23 and of 24 distinct words, one of them "fee"
D_w23 == Doc(<< "w", ".", "p", "d", "f" >>, 1,
             << "f", "e", "e", " ", "d", " ", "e", " ", "f", " ", "g", " ", "h", " ", "i", " ", "j", " ", "k", " ", "l", " ", "m", " ", "n", " ", "o", " ", "p", " ", "q", " ", "r", " ", "s", " ", "t", " ", "u", " ", "v", " ", "w", " ", "x", " ", "y" >>)
D_w24 == Doc(<< "w", ".", "p", "d", "f" >>, 1,
             << "f", "e", "e", " ", "d", " ", "e", " ", "f", " ", "g", " ", "h", " ", "i", " ", "j", " ", "k", " ", "l", " ", "m", " ", "n", " ", "o", " ", "p", " ", "q", " ", "r", " ", "s", " ", "t", " ", "u", " ", "v", " ", "w", " ", "x", " ", "y", " ", "z" >>)

\* 125 distinct words, three of them those of the question "tax fee due on it":
\* the exact overlap is 3 / sqrt(5 * 125) = 0.12, the double the function
\* returns is 0.11999999999999998
D_w125 == Doc(<< "w", ".", "p", "d", "f" >>, 4,
              << "t", "a", "x", " ", "f", "e", "e", " ", "d", "u", "e", " ", "a", "a", " ", "a", "b", " ", "a", "c", " ", "a", "d", " ", "a", "e", " ", "a", "f", " ", "a", "g", " ", "a", "h", " ", "a", "i", " ", "a", "j", " ", "a", "k", " ", "a", "l", " ", "a", "m", " ", "a", "n", " ", "a", "o", " ", "a", "p", " ", "a", "q", " ", "a", "r", " ", "a", "s", " ", "a", "t", " ", "a", "u", " ", "a", "v", " ", "a", "w", " ", "a", "x", " ", "a", "y", " ", "a", "z", " ", "b", "a", " ", "b", "b", " ", "b", "c", " ", "b", "d", " ", "b", "e", " ", "b", "f", " ", "b", "g", " ", "b", "h", " ", "b", "i", " ", "b", "j", " ", "b", "k", " ", "b", "l", " ", "b", "m", " ", "b", "n", " ", "b", "o", " ", "b", "p", " ", "b", "q", " ", "b", "r", " ", "b", "s", " ", "b", "t", " ", "b", "u", " ", "b", "v", " ", "b", "w", " ", "b", "x", " ", "b", "y", " ", "b", "z", " ", "c", "a", " ", "c", "b", " ", "c", "c", " ", "c", "d", " ", "c", "e", " ", "c", "f", " ", "c", "g", " ", "c", "h", " ", "c", "i", " ", "c", "j", " ", "c", "k", " ", "c", "l", " ", "c", "m", " ", "c", "n", " ", "c", "o", " ", "c", "p", " ", "c", "q", " ", "c", "r", " ", "c", "s", " ", "c", "t", " ", "c", "u", " ", "c", "v", " ", "c", "w", " ", "c", "x", " ", "c", "y", " ", "c", "z", " ", "d", "a", " ", "d", "b", " ", "d", "c", " ", "d", "d", " ", "d", "e", " ", "d", "f", " ", "d", "g", " ", "d", "h", " ", "d", "i", " ", "d", "j", " ", "d", "k", " ", "d", "l", " ", "d", "m", " ", "d", "n", " ", "d", "o", " ", "d", "p", " ", "d", "q", " ", "d", "r", " ", "d", "s", " ", "d", "t", " ", "d", "u", " ", "d", "v", " ", "d", "w", " ", "d", "x", " ", "d", "y", " ", "d", "z", " ", "e", "a", " ", "e", "b", " ", "e", "c", " ", "e", "d", " ", "e", "e", " ", "e", "f", " ", "e", "g", " ", "e", "h", " ", "e", "i", " ", "e", "j", " ", "e", "k", " ", "e", "l", " ", "e", "m", " ", "e", "n", " ", "e", "o", " ", "e", "p", " ", "e", "q", " ", "e", "r" >>)

GateQuestionPool ==
  { << "c", "l", "i", "e", "n", "t", " ", "c", " ", "f", "e", "e" >>,
    << "t", "a", "x", " ", "f", "e", "e" >>,
    << "C", "l", "i", "e", "n", "t", "C", " ", "o", "r", " ", "c", "l", "i", "e", "n", "t", " ", "b" >>,
    << "l", "a", "w" >>,
    << "t", "a", "x", " ", "f", "e", "e", " ", "d", "u", "e", " ", "o", "n", " ", "i", "t" >> }

GateDocPool == { D_c, D_cc, D_t, D_z, D_b, D_w23, D_w24, D_w125 }

\* reranked candidate lists: none, one or two candidates, and lists whose
\* entity candidate is the fifth or the sixth
GateDocLists ==
  { <<>> }
  \cup { << d >> : d \in GateDocPool }
  \cup { << d1, d2 >> : d1 \in GateDocPool, d2 \in GateDocPool }
  \cup { << D_z1, D_z2, D_z3, D_z4, D_cc, D_z5 >>,
         << D_z1, D_z2, D_z3, D_z4, D_z5, D_cc >>,
         << D_z1, D_z2, D_z3, D_z4, D_z5, D_t >> }

NoHits == [k |-> "none", v |-> <<>>]

other_than_gate == << chunk_vars, agent_vars, cand_vars, mem_vars, thread_vars, score_vars, grade_vars, debug_vars >>

GateInit ==
  /\ g_policies \in PolicyPool
  /\ g_question \in GateQuestionPool
  /\ g_docs \in GateDocLists
  /\ g_pc = "start"
  /\ g_low = FALSE
  /\ g_searches = 0
  /\ g_hits = NoHits
  /\ ChunkIdle
  /\ AgentIdle
  /\ CandIdle
  /\ MemIdle
  /\ ThreadsIdle
  /\ ScoreIdle
  /\ GradeIdle
  /\ DebugIdle

\* _low_relevance up to the return or to the similarity search
GateDecide ==
  /\ g_pc = "start"
  /\ LET g == low_relevance_before_search(g_question, g_docs)
     IN IF g = "search"
        THEN g_pc' = "search" /\ UNCHANGED g_low
        ELSE g_pc' = "done" /\ g_low' = (g = "low")
  /\ UNCHANGED << g_policies, g_question, g_docs, g_searches, g_hits >>
  /\ UNCHANGED other_than_gate

\* similarity_search_with_score returns: return len(good) == 0
GateSearch ==
  /\ g_pc = "search"
  /\ \E hits \in ScorePool :
       /\ g_hits' = [k |-> "scores", v |-> hits]
       /\ g_low' = low_relevance_after_search(g_policies, hits)
  /\ g_searches' = g_searches + 1
  /\ g_pc' = "done"
  /\ UNCHANGED << g_policies, g_question, g_docs >>
  /\ UNCHANGED other_than_gate

\* similarity_search_with_score raises: return False
GateSearchFails ==
  /\ g_pc = "search"
  /\ g_hits' = [k |-> "raised", v |-> <<>>]
  /\ g_low' = low_relevance_search_raised
  /\ g_searches' = g_searches + 1
  /\ g_pc' = "done"
  /\ UNCHANGED << g_policies, g_question, g_docs >>
  /\ UNCHANGED other_than_gate

GateNext == GateDecide \/ GateSearch \/ GateSearchFails

SpecGate == GateInit /\ [][GateNext]_vars

\* --------------------------------------------- preparing the candidates

\* query between retriever.invoke and _low_relevance:
\* _filter_offtopic_docs, _rerank_with_lexical, _ensure_entity_inclusion

MaxDocs == 3

D_vu == Doc(<< "v", ".", "p", "d", "f" >>, 2, << "V", "O", "T", "E", " ", "t", "a", "x" >>)

\* 27 distinct words, three of them words of "clientc fee (client c)": the
\* exact overlap 3 / sqrt(4 * 27) is that of D_t, 1 / sqrt(4 * 3), and the
\* doubles the function returns are 0.28867513459481287 here and
\* 0.2886751345948129 for D_t
D_w27 == Doc(<< "w", ".", "p", "d", "f" >>, 3,
             << "c", "l", "i", "e", "n", "t", " ", "f", "e", "e", " ", "c", " ", "a", " ", "b", " ", "d", " ", "e", " ", "g", " ", "h", " ", "i", " ", "j", " ", "k", " ", "l", " ", "m", " ", "n", " ", "o", " ", "p", " ", "q", " ", "r", " ", "s", " ", "t", " ", "u", " ", "v", " ", "w", " ", "x", " ", "y", " ", "z" >>)

CandDocPool == { D_t, D_t2, D_v, D_vu, D_z, D_c, D_cc, D_w27 }

CandQueryPool ==
  { << "t", "a", "x", " ", "f", "e", "e" >>,
    << "c", "l", "i", "e", "n", "t", "c", " ", "f", "e", "e", " ", "(", "c", "l", "i", "e", "n", "t", " ", "c", ")" >>,
    << "v", "o", "t", "e", " ", "z", "z" >> }

\* what one supplementary similarity_search(tok, k=3) may return
CandSearchPool == { <<>>, << D_z, D_cc >>, << D_c, D_t >> }

other_than_cand == << chunk_vars, agent_vars, gate_vars, mem_vars, thread_vars, score_vars, grade_vars, debug_vars >>

CandInit ==
  /\ c_policies \in PolicyPool
  /\ c_query \in CandQueryPool
  /\ c_docs \in {<<>>} \cup SeqsUpTo(CandDocPool, MaxDocs)
  /\ c_pc = "filter"
  /\ c_filtered = <<>>
  /\ c_reranked = <<>>
  /\ c_toks_left = <<>>
  /\ c_must = <<>>
  /\ c_extra = <<>>
  /\ c_searches = 0
  /\ c_raised = FALSE
  /\ c_out = <<>>
  /\ ChunkIdle
  /\ AgentIdle
  /\ GateIdle
  /\ MemIdle
  /\ ThreadsIdle
  /\ ScoreIdle
  /\ GradeIdle
  /\ DebugIdle

\* ctx_docs = self._filter_offtopic_docs(ctx_docs)
FilterOfftopic ==
  /\ c_pc = "filter"
  /\ c_filtered' = filter_offtopic_docs(c_policies, c_docs)
  /\ c_pc' = "rerank"
  /\ UNCHANGED << c_policies, c_query, c_docs, c_reranked, c_toks_left, c_must,
                  c_extra, c_searches, c_raised, c_out >>
  /\ UNCHANGED other_than_cand

\* ctx_docs = self._rerank_with_lexical(qn, ctx_docs)
RerankLexical ==
  /\ c_pc = "rerank"
  /\ c_reranked' = rerank_with_lexical(c_query, c_filtered)
  /\ c_pc' = "include"
  /\ UNCHANGED << c_policies, c_query, c_docs, c_filtered, c_toks_left, c_must,
                  c_extra, c_searches, c_raised, c_out >>
  /\ UNCHANGED other_than_cand

\* _ensure_entity_inclusion(qn, ctx_docs) up to its first similarity_search,
\* or to its return when it makes none
EnsureEntityInclusion ==
  /\ c_pc = "include"
  /\ LET toks == entity_tokens_of(c_query)
         m == entity_must(toks, c_reranked)
     IN IF toks = <<>>
        THEN /\ c_out' = c_reranked
             /\ c_pc' = "done"
             /\ UNCHANGED << c_toks_left, c_must >>
        ELSE IF m # <<>>
        THEN /\ c_out' = entity_front_load(m, c_reranked)
             /\ c_must' = m
             /\ c_pc' = "done"
             /\ UNCHANGED c_toks_left
        ELSE /\ c_pc' = "entity_search"
             /\ c_toks_left' = toks
             /\ UNCHANGED << c_must, c_out >>
  /\ UNCHANGED << c_policies, c_query, c_docs, c_filtered, c_reranked, c_extra,
                  c_searches, c_raised >>
  /\ UNCHANGED other_than_cand

\* vectordb.similarity_search(tok, k=3) returns for the next entity token
CandEntitySearch ==
  /\ c_pc = "entity_search"
  /\ c_searches' = c_searches + 1
  /\ \E extra \in CandSearchPool :
       LET must2 == c_must \o entity_must(entity_tokens_of(c_query), extra)
       IN /\ c_extra' = c_extra \o extra
          /\ c_must' = must2
          /\ c_toks_left' = Tail(c_toks_left)
          /\ IF Len(c_toks_left) > 1
             THEN UNCHANGED << c_pc, c_out >>
             ELSE /\ c_out' = entity_front_load(must2, c_reranked)
                  /\ c_pc' = "done"
  /\ UNCHANGED << c_policies, c_query, c_docs, c_filtered, c_reranked, c_raised >>
  /\ UNCHANGED other_than_cand

\* vectordb.similarity_search raises: `except Exception: pass`
CandEntitySearchFails ==
  /\ c_pc = "entity_search"
  /\ c_searches' = c_searches + 1
  /\ c_raised' = TRUE
  /\ c_out' = entity_front_load(c_must, c_reranked)
  /\ c_pc' = "done"
  /\ UNCHANGED << c_policies, c_query, c_docs, c_filtered, c_reranked, c_toks_left,
                  c_must, c_extra >>
  /\ UNCHANGED other_than_cand

CandNext ==
  \/ FilterOfftopic
  \/ RerankLexical
  \/ EnsureEntityInclusion
  \/ CandEntitySearch
  \/ CandEntitySearchFails

SpecCandidates == CandInit /\ [][CandNext]_vars

\* --------------------------------------------- the conversation memory alone

\* ConversationMemory(max_turns, summary_max_chars) and a sequence of add calls

MaxAdds == 4

MemMaxTurnsPool == { -1, 0, 1, 2, 3 }

MemTurnPool ==
  { [q |-> << "t", "a", "x", " ", "f", "e", "e" >>, a |-> << "f", "e", "e", " ", "i", "s", " ", "d", "u", "e" >>],
    [q |-> << "l", "a", "w" >>, a |-> << "N", "o", " ", "i", "n", "f", "o", "." >>],
    [q |-> << "S", "p", "o", "r", "t", "s", " ", "V", "o", "t", "e" >>, a |-> << "O", "u", "t", " ", "o", "f", " ", "s", "c", "o", "p", "e", "." >>] }

other_than_mem == << chunk_vars, agent_vars, gate_vars, cand_vars, thread_vars, score_vars, grade_vars, debug_vars >>

\* self.cache.get(conv_id, [])
cache_get(cache, conv_id) == IF conv_id \in DOMAIN cache THEN cache[conv_id] ELSE <<>>

MemInit ==
  /\ m_max_turns \in MemMaxTurnsPool
  /\ m_cache = << >>
  /\ m_added = [c \in ConvIds |-> <<>>]
  /\ m_nadds = 0
  /\ ChunkIdle
  /\ AgentIdle
  /\ GateIdle
  /\ CandIdle
  /\ ThreadsIdle
  /\ ScoreIdle
  /\ GradeIdle
  /\ DebugIdle

\* ConversationMemory.add(conv_id, user_q, answer)
MemAdd ==
  /\ m_nadds < MaxAdds
  /\ \E conv_id \in ConvIds, t \in MemTurnPool :
       /\ m_cache' = [c \in DOMAIN m_cache \cup {conv_id} |->
                        IF c = conv_id
                        THEN memory_add(cache_get(m_cache, c), t.q, t.a, m_max_turns)
                        ELSE m_cache[c]]
       /\ m_added' = [m_added EXCEPT ![conv_id] = Append(@, t)]
  /\ m_nadds' = m_nadds + 1
  /\ UNCHANGED m_max_turns
  /\ UNCHANGED other_than_mem

MemNext == MemAdd

SpecMemory == MemInit /\ [][MemNext]_vars

\* ------------------------------------- add called from concurrent queries

\* query runs in the worker threads of the service and ends with
\* self.memory.add(...) on the one ConversationMemory of the agent; add takes
\* no lock.  The statements of add are the steps; the assignment
\* `self.cache[conv_id] = lst[-self.max_turns:]` evaluates the slice and then
\* stores it.

ThreadMaxTurnsPool == { 1, 2 }

\* the turn each thread's query adds
ThreadTurn ==
  [ t1 |-> [q |-> << "t", "a", "x", " ", "f", "e", "e" >>, a |-> << "f", "e", "e", " ", "i", "s", " ", "d", "u", "e" >>],
    t2 |-> [q |-> << "l", "a", "w" >>, a |-> << "N", "o", " ", "i", "n", "f", "o", "." >>] ]

\* turns of earlier queries
OldTurn1 == [q |-> << "c", "l", "i", "e", "n", "t", "c", " ", "f", "e", "e" >>, a |-> << "f", "e", "e", " ", "i", "s", " ", "d", "u", "e" >>]
OldTurn2 == [q |-> << "S", "p", "o", "r", "t", "s", " ", "V", "o", "t", "e" >>, a |-> << "O", "u", "t", " ", "o", "f", " ", "s", "c", "o", "p", "e", "." >>]

OldLogPool == { <<>>, << OldTurn1 >>, << OldTurn1, OldTurn2 >> }

other_than_threads == << chunk_vars, agent_vars, gate_vars, cand_vars, mem_vars, score_vars, grade_vars, debug_vars >>

ThreadsInit ==
  /\ t_max_turns \in ThreadMaxTurnsPool
  /\ t_init \in [ConvIds -> {l \in OldLogPool : Len(l) <= t_max_turns}]
  /\ t_heap = << t_init["default"], t_init["repl"] >>
  /\ t_cache = [c \in ConvIds |->
                  IF t_init[c] = <<>> THEN 0 ELSE IF c = "default" THEN 1 ELSE 2]
  /\ t_pc = [t \in Threads |-> "lookup"]
  /\ t_conv \in [Threads -> ConvIds]
  /\ t_lst = [t \in Threads |-> 0]
  /\ t_slice = [t \in Threads |-> 0]
  /\ ChunkIdle
  /\ AgentIdle
  /\ GateIdle
  /\ CandIdle
  /\ MemIdle
  /\ ScoreIdle
  /\ GradeIdle
  /\ DebugIdle

\* lst = self.cache.setdefault(conv_id, [])
AddLookup(t) ==
  /\ t_pc[t] = "lookup"
  /\ IF t_cache[t_conv[t]] = 0
     THEN /\ t_heap' = Append(t_heap, <<>>)
          /\ t_cache' = [t_cache EXCEPT ![t_conv[t]] = Len(t_heap) + 1]
          /\ t_lst' = [t_lst EXCEPT ![t] = Len(t_heap) + 1]
     ELSE /\ t_lst' = [t_lst EXCEPT ![t] = t_cache[t_conv[t]]]
          /\ UNCHANGED << t_heap, t_cache >>
  /\ t_pc' = [t_pc EXCEPT ![t] = "append"]
  /\ UNCHANGED << t_max_turns, t_init, t_conv, t_slice >>
  /\ UNCHANGED other_than_threads

\* lst.append({"q": user_q, "a": summarize_text(answer, 2000)})
AddAppend(t) ==
  /\ t_pc[t] = "append"
  /\ t_heap' = [t_heap EXCEPT ![t_lst[t]] =
                  Append(@, [q |-> ThreadTurn[t].q,
                             a |-> summarize_text(ThreadTurn[t].a, 2000)])]
  /\ t_pc' = [t_pc EXCEPT ![t] = "check"]
  /\ UNCHANGED << t_max_turns, t_cache, t_init, t_conv, t_lst, t_slice >>
  /\ UNCHANGED other_than_threads

\* if len(lst) > self.max_turns:
AddLengthCheck(t) ==
  /\ t_pc[t] = "check"
  /\ t_pc' = [t_pc EXCEPT ![t] =
                IF Len(t_heap[t_lst[t]]) > t_max_turns THEN "slice" ELSE "done"]
  /\ UNCHANGED << t_max_turns, t_heap, t_cache, t_init, t_conv, t_lst, t_slice >>
  /\ UNCHANGED other_than_threads

\* lst[-self.max_turns:], a new list
AddSlice(t) ==
  /\ t_pc[t] = "slice"
  /\ t_heap' = Append(t_heap, last_items(t_heap[t_lst[t]], t_max_turns))
  /\ t_slice' = [t_slice EXCEPT ![t] = Len(t_heap) + 1]
  /\ t_pc' = [t_pc EXCEPT ![t] = "store"]
  /\ UNCHANGED << t_max_turns, t_cache, t_init, t_conv, t_lst >>
  /\ UNCHANGED other_than_threads

\* self.cache[conv_id] = <the slice>
AddStore(t) ==
  /\ t_pc[t] = "store"
  /\ t_cache' = [t_cache EXCEPT ![t_conv[t]] = t_slice[t]]
  /\ t_pc' = [t_pc EXCEPT ![t] = "done"]
  /\ UNCHANGED << t_max_turns, t_heap, t_init, t_conv, t_lst, t_slice >>
  /\ UNCHANGED other_than_threads

ThreadsNext ==
  \E t \in Threads :
    \/ AddLookup(t)
    \/ AddAppend(t)
    \/ AddLengthCheck(t)
    \/ AddSlice(t)
    \/ AddStore(t)

SpecThreads == ThreadsInit /\ [][ThreadsNext]_vars

\* ------------------------------------------------ the confidence score

\* calculate_confidence_score on numbers with two decimals: lexical_score and
\* the distances are given in hundredths and stand for the doubles written
\* with two decimals; the score is counted in thousandths.  Every operation
\* is the operation on doubles, in the order the code has them.

hundredths(p) == double_of_ratio(p, 100)

\* the doubles 0.25, 0.35, 0.20, 0.10 of the weights, 0.75 and 0.50 of the
\* levels
Weight25 == hundredths(25)
Weight35 == hundredths(35)
Weight20 == hundredths(20)
Weight10 == hundredths(10)
Level75 == hundredths(75)
Level50 == hundredths(50)

RECURSIVE sum_of(_)
sum_of(l) == IF l = <<>> THEN 0 ELSE Head(l) + sum_of(Tail(l))

\* sum(distance_scores): one addition after the other, from the left
RECURSIVE double_sum(_, _)
double_sum(l, acc) ==
  IF l = <<>> THEN acc ELSE double_sum(Tail(l), double_add(acc, hundredths(Head(l))))

\* similarity_score = max(0, 1 - (avg_distance / 2.0)), 0.0 without distances
similarity_score(distance_scores) ==
  LET avg_distance == double_div(double_sum(distance_scores, DoubleZero),
                                 double_of_int(Len(distance_scores)))
      x == double_sub(DoubleOne, double_div(avg_distance, DoubleTwo))
  IN IF distance_scores = <<>> THEN DoubleZero
     ELSE IF double_cmp(x, DoubleZero) > 0 THEN x ELSE DoubleZero

\* min(1.0, count / cap)
capped_share(count, cap) ==
  LET x == double_div(double_of_int(count), double_of_int(cap))
  IN IF double_cmp(x, DoubleOne) < 0 THEN x ELSE DoubleOne

\* confidence: the weighted sum, added from the left
confidence_of(lexical_score, distance_scores, entity_match, citation_count, doc_count) ==
  double_add(
    double_add(
      double_add(
        double_add(double_mul(Weight25, hundredths(lexical_score)),
                   double_mul(Weight35, similarity_score(distance_scores))),
        double_mul(Weight20, IF entity_match THEN DoubleOne ELSE DoubleZero)),
      double_mul(Weight10, capped_share(citation_count, 3))),
    double_mul(Weight10, capped_share(doc_count, 5)))

\* round(confidence, 3), in thousandths
round_thousandths(confidence) == double_round_scaled(confidence, 1000)

\* the level, from the unrounded confidence
level_of(confidence) ==
  IF double_cmp(confidence, Level75) >= 0 THEN "high"
  ELSE IF double_cmp(confidence, Level50) >= 0 THEN "medium"
  ELSE "low"

MaxDistances == 2

LexicalPool == { 0, 50, 100, 200 }

DistancePool == { -192, 0, 2, 6, 24, 288 }

CitationPool == { 0, 2, 3, 4 }

DocCountPool == { 0, 2, 5, 6 }

other_than_score == << chunk_vars, agent_vars, gate_vars, cand_vars, mem_vars, thread_vars, grade_vars, debug_vars >>

ScoreInit ==
  /\ s_lexical \in LexicalPool
  /\ s_distances \in {<<>>} \cup SeqsUpTo(DistancePool, MaxDistances)
  /\ s_entity \in BOOLEAN
  /\ s_citations \in CitationPool
  /\ s_docs \in DocCountPool
  /\ s_pc = "call"
  /\ s_score = 0
  /\ s_level = ""
  /\ ChunkIdle
  /\ AgentIdle
  /\ GateIdle
  /\ CandIdle
  /\ MemIdle
  /\ ThreadsIdle
  /\ GradeIdle
  /\ DebugIdle

\* calculate_confidence_score(lexical_score, distance_scores, entity_match,
\*                            citation_count, doc_count)
CalculateConfidence ==
  /\ s_pc = "call"
  /\ LET confidence == confidence_of(s_lexical, s_distances, s_entity, s_citations, s_docs)
     IN /\ s_score' = round_thousandths(confidence)
        /\ s_level' = level_of(confidence)
  /\ s_pc' = "done"
  /\ UNCHANGED << s_lexical, s_distances, s_entity, s_citations, s_docs >>
  /\ UNCHANGED other_than_score

ScoreNext == CalculateConfidence

SpecConfidence == ScoreInit /\ [][ScoreNext]_vars

\* ------------------------------------------------ the benchmark grader

\* The marks that open a line of feedback: a check mark, a warning sign, a
\* cross.
CheckMark == "[check]"
WarningSign == "[warning]"
CrossMark == "[cross]"

\* x in l
in_list(x, l) == \E i \in 1..Len(l) : l[i] = x

\* round(n / m, 2) in hundredths
round_hundredths(n, m) ==
  double_round_scaled(double_div(double_of_int(n), double_of_int(m)), 100)

\* f"({a}/{b})"
ratio_text(a, b) == << "(" >> \o int_str(a) \o << "/" >> \o int_str(b) \o << ")" >>

\* _score_content comparing the terms as written
score_content_case_sensitive(answer, must_include, must_exclude) ==
  LET answer_lower == lower(answer)
      found(term) == contains(answer, term)
      included == SelectSeq(must_include, found)
      excluded == SelectSeq(must_exclude, found)
      full == must_include = <<>> \/ Len(included) >= Len(must_include)
      half == must_include # <<>> /\ 2 * Len(included) >= Len(must_include)
      not_included(t) == ~ in_list(t, included)
      missing == SelectSeq(must_include, not_included)
      counts == ratio_text(Len(included), Len(must_include))
      points == IF excluded # <<>> THEN 0 ELSE IF full THEN 2 ELSE IF half THEN 1 ELSE 0
      feedback ==
        IF excluded # <<>>
        THEN << CrossMark >> \o << " ", "C", "o", "n", "t", "a", "i", "n", "s", " ", "p", "r", "o", "h", "i", "b", "i", "t", "e", "d", " ", "t", "e", "r", "m", "s", ":", " " >> \o join(<< ",", " " >>, excluded)
        ELSE IF full
        THEN << CheckMark >> \o << " ", "A", "l", "l", " ", "r", "e", "q", "u", "i", "r", "e", "d", " ", "t", "e", "r", "m", "s", " ", "p", "r", "e", "s", "e", "n", "t", " " >> \o counts
        ELSE IF half
        THEN << WarningSign >> \o << " ", " ", "P", "a", "r", "t", "i", "a", "l", " ", "m", "a", "t", "c", "h", " " >> \o counts \o << ".", " ", "M", "i", "s", "s", "i", "n", "g", ":", " " >> \o join(<< ",", " " >>, missing)
        ELSE << CrossMark >> \o << " ", "P", "o", "o", "r", " ", "m", "a", "t", "c", "h", " " >> \o counts \o << ".", " ", "M", "i", "s", "s", "i", "n", "g", ":", " " >> \o join(<< ",", " " >>, missing)
  IN [points |-> points, max_points |-> 2, included |-> included, excluded |-> excluded,
      inclusion_rate |-> IF must_include = <<>> THEN 100
                         ELSE round_hundredths(Len(included), Len(must_include)),
      feedback |-> << feedback >>]

\* BenchmarkScorer._score_content
score_content(answer, must_include, must_exclude) ==
  LET answer_lower == lower(answer)
      found(term) == contains(answer_lower, lower(term))
      included == SelectSeq(must_include, found)
      excluded == SelectSeq(must_exclude, found)
      full == must_include = <<>> \/ Len(included) >= Len(must_include)
      half == must_include # <<>> /\ 2 * Len(included) >= Len(must_include)
      not_included(t) == ~ in_list(t, included)
      missing == SelectSeq(must_include, not_included)
      counts == ratio_text(Len(included), Len(must_include))
      points == IF excluded # <<>> THEN 0 ELSE IF full THEN 2 ELSE IF half THEN 1 ELSE 0
      feedback ==
        IF excluded # <<>>
        THEN << CrossMark >> \o << " ", "C", "o", "n", "t", "a", "i", "n", "s", " ", "p", "r", "o", "h", "i", "b", "i", "t", "e", "d", " ", "t", "e", "r", "m", "s", ":", " " >> \o join(<< ",", " " >>, excluded)
        ELSE IF full
        THEN << CheckMark >> \o << " ", "A", "l", "l", " ", "r", "e", "q", "u", "i", "r", "e", "d", " ", "t", "e", "r", "m", "s", " ", "p", "r", "e", "s", "e", "n", "t", " " >> \o counts
        ELSE IF half
        THEN << WarningSign >> \o << " ", " ", "P", "a", "r", "t", "i", "a", "l", " ", "m", "a", "t", "c", "h", " " >> \o counts \o << ".", " ", "M", "i", "s", "s", "i", "n", "g", ":", " " >> \o join(<< ",", " " >>, missing)
        ELSE << CrossMark >> \o << " ", "P", "o", "o", "r", " ", "m", "a", "t", "c", "h", " " >> \o counts \o << ".", " ", "M", "i", "s", "s", "i", "n", "g", ":", " " >> \o join(<< ",", " " >>, missing)
  IN [points |-> points, max_points |-> 2, included |-> included, excluded |-> excluded,
      inclusion_rate |-> IF must_include = <<>> THEN 100
                         ELSE round_hundredths(Len(included), Len(must_include)),
      feedback |-> << feedback >>]

\* An entry of used_documents: a string, a dict (an absent key reads as ""),
\* or something else.
DocStr(name) == [k |-> "str", v |-> name, source |-> <<>>, filename |-> <<>>]
DocDict(source, filename) == [k |-> "dict", v |-> <<>>, source |-> source, filename |-> filename]
DocOther == [k |-> "other", v |-> <<>>, source |-> <<>>, filename |-> <<>>]

\* the filename _score_citations reads from a used_documents entry
doc_source(doc) ==
  IF doc.k = "dict" THEN (IF doc.source # <<>> THEN doc.source ELSE doc.filename)
  ELSE IF doc.k = "str" THEN doc.v
  ELSE <<>>

\* cited_files of _score_citations
cited_files(quotes, used_docs) ==
  ({quotes[i].source : i \in 1..Len(quotes)} \cup {doc_source(used_docs[i]) : i \in 1..Len(used_docs)})
    \ {<<>>}

\* _score_citations asking for the whole filename
score_citations_exact_name(quotes, used_docs, must_cite) ==
  IF must_cite = <<>>
  THEN [points |-> 2, max_points |-> 2,
        feedback |-> << << CheckMark >> \o << " ", "N", "o", " ", "c", "i", "t", "a", "t", "i", "o", "n", "s", " ", "r", "e", "q", "u", "i", "r", "e", "d" >> >>]
  ELSE
  LET files == cited_files(quotes, used_docs)
      is_cited(f) == \E cited \in files : cited = f
      cited_required == SelectSeq(must_cite, is_cited)
      not_cited(f) == ~ in_list(f, cited_required)
      missing == SelectSeq(must_cite, not_cited)
      full == Len(cited_required) >= Len(must_cite)
      half == 2 * Len(cited_required) >= Len(must_cite)
      counts == ratio_text(Len(cited_required), Len(must_cite))
  IN [points |-> IF full THEN 2 ELSE IF half THEN 1 ELSE 0,
      max_points |-> 2,
      cited |-> files,
      cited_required |-> cited_required,
      missing |-> missing,
      citation_rate |-> round_hundredths(Len(cited_required), Len(must_cite)),
      feedback |-> <<
        IF full THEN << CheckMark >> \o << " ", "A", "l", "l", " ", "r", "e", "q", "u", "i", "r", "e", "d", " ", "d", "o", "c", "u", "m", "e", "n", "t", "s", " ", "c", "i", "t", "e", "d", " " >> \o counts
        ELSE IF half
        THEN << WarningSign >> \o << " ", " ", "P", "a", "r", "t", "i", "a", "l", " ", "c", "i", "t", "a", "t", "i", "o", "n", "s", " " >> \o counts \o << ".", " ", "M", "i", "s", "s", "i", "n", "g", ":", " " >> \o join(<< ",", " " >>, missing)
        ELSE << CrossMark >> \o << " ", "P", "o", "o", "r", " ", "c", "i", "t", "a", "t", "i", "o", "n", "s", " " >> \o counts \o << ".", " ", "M", "i", "s", "s", "i", "n", "g", ":", " " >> \o join(<< ",", " " >>, missing) >>]

\* BenchmarkScorer._score_citations; "cited" is list(cited_files), kept as the set
score_citations(quotes, used_docs, must_cite) ==
  IF must_cite = <<>>
  THEN [points |-> 2, max_points |-> 2,
        feedback |-> << << CheckMark >> \o << " ", "N", "o", " ", "c", "i", "t", "a", "t", "i", "o", "n", "s", " ", "r", "e", "q", "u", "i", "r", "e", "d" >> >>]
  ELSE
  LET files == cited_files(quotes, used_docs)
      is_cited(f) == \E cited \in files : contains(cited, f)
      cited_required == SelectSeq(must_cite, is_cited)
      not_cited(f) == ~ in_list(f, cited_required)
      missing == SelectSeq(must_cite, not_cited)
      full == Len(cited_required) >= Len(must_cite)
      half == 2 * Len(cited_required) >= Len(must_cite)
      counts == ratio_text(Len(cited_required), Len(must_cite))
  IN [points |-> IF full THEN 2 ELSE IF half THEN 1 ELSE 0,
      max_points |-> 2,
      cited |-> files,
      cited_required |-> cited_required,
      missing |-> missing,
      citation_rate |-> round_hundredths(Len(cited_required), Len(must_cite)),
      feedback |-> <<
        IF full THEN << CheckMark >> \o << " ", "A", "l", "l", " ", "r", "e", "q", "u", "i", "r", "e", "d", " ", "d", "o", "c", "u", "m", "e", "n", "t", "s", " ", "c", "i", "t", "e", "d", " " >> \o counts
        ELSE IF half
        THEN << WarningSign >> \o << " ", " ", "P", "a", "r", "t", "i", "a", "l", " ", "c", "i", "t", "a", "t", "i", "o", "n", "s", " " >> \o counts \o << ".", " ", "M", "i", "s", "s", "i", "n", "g", ":", " " >> \o join(<< ",", " " >>, missing)
        ELSE << CrossMark >> \o << " ", "P", "o", "o", "r", " ", "c", "i", "t", "a", "t", "i", "o", "n", "s", " " >> \o counts \o << ".", " ", "M", "i", "s", "s", "i", "n", "g", ":", " " >> \o join(<< ",", " " >>, missing) >>]

\* policy_expect of a test; a key that is absent or None is J_null
J_int(n) == [k |-> "int", v |-> n]
J_num(x) == [k |-> "num", v |-> x]

PolicyExpect(flags_present, flags_absent, must_answer, quotes_min, quotes_max, math_check) ==
  [flags_present |-> flags_present, flags_absent |-> flags_absent,
   must_answer |-> must_answer, quotes_min |-> quotes_min, quotes_max |-> quotes_max,
   math_check |-> math_check]

\* BenchmarkScorer._score_quotes
score_quotes(quotes, policy_expect) ==
  LET quotes_min == policy_expect.quotes_min
      quotes_max == policy_expect.quotes_max
      quote_count == Len(quotes)
      min_satisfied == quote_count >= quotes_min
      max_satisfied == quotes_max.k = "null" \/ quote_count <= quotes_max.v
      ok == min_satisfied /\ max_satisfied
      feedback ==
        IF ok
        THEN IF quotes_min > 0 /\ quotes_max.k # "null"
             THEN << << CheckMark >> \o << " ", "A", "p", "p", "r", "o", "p", "r", "i", "a", "t", "e", " ", "q", "u", "o", "t", "e", " ", "c", "o", "u", "n", "t", ":", " " >> \o int_str(quote_count) \o << " ", "(", "e", "x", "p", "e", "c", "t", "e", "d", " " >>
                       \o int_str(quotes_min) \o << "-" >> \o int_str(quotes_max.v) \o << ")" >> >>
             ELSE IF quotes_min > 0
             THEN << << CheckMark >> \o << " ", "A", "p", "p", "r", "o", "p", "r", "i", "a", "t", "e", " ", "q", "u", "o", "t", "e", " ", "c", "o", "u", "n", "t", ":", " " >> \o int_str(quote_count) \o << " ", "(", "m", "i", "n", "i", "m", "u", "m", " " >>
                       \o int_str(quotes_min) \o << ")" >> >>
             ELSE << << CheckMark >> \o << " ", "Q", "u", "o", "t", "e", " ", "c", "o", "u", "n", "t", " ", "a", "c", "c", "e", "p", "t", "a", "b", "l", "e", ":", " " >> \o int_str(quote_count) >>
        ELSE IF quote_count < quotes_min
             THEN << << CrossMark >> \o << " ", "T", "o", "o", " ", "f", "e", "w", " ", "q", "u", "o", "t", "e", "s", ":", " " >> \o int_str(quote_count) \o << " ", "(", "m", "i", "n", "i", "m", "u", "m", " " >>
                       \o int_str(quotes_min) \o << ")" >> >>
             ELSE IF quotes_max.k # "null"
             THEN << << CrossMark >> \o << " ", "T", "o", "o", " ", "m", "a", "n", "y", " ", "q", "u", "o", "t", "e", "s", ":", " " >> \o int_str(quote_count) \o << " ", "(", "m", "a", "x", "i", "m", "u", "m", " " >>
                       \o int_str(quotes_max.v) \o << ")" >> >>
             ELSE <<>>
  IN [points |-> IF ok THEN 1 ELSE 0, max_points |-> 1, count |-> quote_count,
      expected_min |-> quotes_min,
      expected_max |-> IF quotes_max.k # "null" THEN quotes_max ELSE J_str(<< "u", "n", "l", "i", "m", "i", "t", "e", "d" >>),
      feedback |-> feedback]

\* BenchmarkScorer._score_policy
score_policy(policy_flags, answer, policy_expect) ==
  LET flags_present == policy_expect.flags_present
      flags_absent == policy_expect.flags_absent
      must_answer == policy_expect.must_answer
      asked == must_answer.k = "str" /\ must_answer.v # <<>>
      flags_text == join(<< ",", " " >>, policy_flags)
      not_produced(flag) == ~ in_list(flag, policy_flags)
      produced(flag) == in_list(flag, policy_flags)
      absent_flags == SelectSeq(flags_present, not_produced)
      present_flags == SelectSeq(flags_absent, produced)
      violations ==
        [i \in 1..Len(absent_flags) |-> << "M", "i", "s", "s", "i", "n", "g", " ", "e", "x", "p", "e", "c", "t", "e", "d", " ", "f", "l", "a", "g", ":", " " >> \o absent_flags[i]]
        \o [i \in 1..Len(present_flags) |-> << "U", "n", "e", "x", "p", "e", "c", "t", "e", "d", " ", "f", "l", "a", "g", " ", "p", "r", "e", "s", "e", "n", "t", ":", " " >> \o present_flags[i]]
        \o (IF asked /\ ~ contains(lower(answer), must_answer.v)
            THEN << << "A", "n", "s", "w", "e", "r", " ", "s", "h", "o", "u", "l", "d", " ", "c", "o", "n", "t", "a", "i", "n", ":", " " >> \o must_answer.v >> ELSE <<>>)
      feedback ==
        IF violations = <<>>
        THEN IF flags_present # <<>> \/ flags_absent # <<>> \/ asked
             THEN << << CheckMark >> \o << " ", "P", "o", "l", "i", "c", "y", " ", "b", "e", "h", "a", "v", "i", "o", "r", " ", "c", "o", "r", "r", "e", "c", "t", " ", "(", "f", "l", "a", "g", "s", ":", " " >>
                       \o (IF flags_text # <<>> THEN flags_text ELSE << "n", "o", "n", "e" >>)
                       \o << ")" >> >>
             ELSE << << CheckMark >> \o << " ", "N", "o", " ", "p", "o", "l", "i", "c", "y", " ", "r", "e", "q", "u", "i", "r", "e", "m", "e", "n", "t", "s" >> >>
        ELSE [i \in 1..Len(violations) |-> << CrossMark, " " >> \o violations[i]]
  IN [points |-> IF violations = <<>> THEN 1 ELSE 0, max_points |-> 1,
      flags |-> policy_flags, violations |-> violations, feedback |-> feedback]

\* the characters of \d
DigitChars == {Digits[i] : i \in 1..Len(Digits)}

\* the first position from i on with a character of `set`, Len(s) + 1 if
\* there is none
next_in(s, i, set) ==
  IF \A j \in i..Len(s) : s[j] \notin set THEN Len(s) + 1
  ELSE CHOOSE j \in i..Len(s) : s[j] \in set /\ \A k \in i..(j - 1) : s[k] \notin set

\* the length of the run of characters of `set` at position i
run_at(s, i, set) ==
  IF \A j \in i..Len(s) : s[j] \in set THEN Len(s) + 1 - i
  ELSE (CHOOSE j \in i..Len(s) : s[j] \notin set /\ \A k \in i..(j - 1) : s[k] \in set) - i

\* re.findall(r'[\d,]+\.?\d*', s), from position i on
RECURSIVE find_numbers(_, _)
find_numbers(s, i) ==
  IF next_in(s, i, DigitChars \cup {","}) > Len(s) THEN <<>>
  ELSE LET b == next_in(s, i, DigitChars \cup {","})
           n == run_at(s, b, DigitChars \cup {","})
           d == IF b + n <= Len(s) /\ s[b + n] = "." THEN 1 ELSE 0
           f == run_at(s, b + n + d, DigitChars)
       IN << SubSeq(s, b, b + n + d + f - 1) >> \o find_numbers(s, b + n + d + f)

\* A float of the grader is held by its repr: `digits` are the significant
\* digits of the shortest decimal number that reads back as this float,
\* without leading or trailing zeros (none for zero), `exp` is the power of
\* ten of the first of them, `sign` is 1 for a negative float.  An infinity
\* has the digits "inf", a NaN the digits "nan".
Infinity(sign) == [sign |-> sign, digits |-> << "i", "n", "f" >>, exp |-> 0]
NaN == [sign |-> 0, digits |-> << "n", "a", "n" >>, exp |-> 0]

\* the decimal number (-1)^sign * 0.d * 10^(e + 1) without the leading and
\* the trailing zeros of d
first_digit_set(d) == CHOOSE i \in 1..Len(d) : d[i] # "0" /\ \A j \in 1..(i - 1) : d[j] = "0"
last_digit_set(d) == CHOOSE i \in 1..Len(d) : d[i] # "0" /\ \A j \in (i + 1)..Len(d) : d[j] = "0"

decimal_of(sign, d, e) ==
  IF \A i \in 1..Len(d) : d[i] = "0" THEN [sign |-> sign, digits |-> <<>>, exp |-> 0]
  ELSE [sign |-> sign,
        digits |-> SubSeq(d, first_digit_set(d), last_digit_set(d)),
        exp |-> e - (first_digit_set(d) - 1)]

digit_value(c) == CHOOSE v \in 0..9 : Digits[v + 1] = c

\* 10^n
RECURSIVE nat_pow10(_)
nat_squared(a) == nat_mul(a, a)
nat_pow10(n) ==
  IF n = 0 THEN << 1 >>
  ELSE IF n % 2 = 1 THEN nat_mul_small(nat_pow10(n - 1), 10)
  ELSE nat_squared(nat_pow10(n \div 2))

\* the natural number written by the decimal digits of d from lo to hi: the
\* upper half of them, the lower half's digits up, plus the lower half
RECURSIVE nat_of_digits(_, _, _)
nat_of_digits(d, lo, hi) ==
  IF lo > hi THEN <<>>
  ELSE IF lo = hi THEN nat_of(digit_value(d[lo]))
  ELSE nat_add(nat_mul(nat_of_digits(d, lo, (lo + hi) \div 2),
                       nat_pow10(hi - ((lo + hi) \div 2))),
               nat_of_digits(d, ((lo + hi) \div 2) + 1, hi))

\* the largest exponent of a double's 53 digits, and the smallest
DoubleMaxExp == 971
DoubleMinExp == -1074

\* The double nearest to (-1)^sign * n * 2^e within the range of the format:
\* `exp` is the exponent its digits get, the smallest one for a subnormal
\* number.  Beyond the largest double the result is an infinity.
double_ranged_at(sign, n, e, exp) ==
  IF exp <= e THEN Double(sign, nat_shl(n, e - exp), exp)
  ELSE double_of_digits(sign,
                        nat_round_half_even(nat_shr(n, exp - e),
                                            nat_cmp(nat_low(n, exp - e),
                                                    nat_shl(<< 1 >>, exp - e - 1))),
                        exp)

\* an infinity: no digits, and an exponent beyond the largest
DoubleInf(sign) == Double(sign, <<>>, DoubleMaxExp + 1)
double_is_inf(a) == a.e > DoubleMaxExp

\* a rounded double within the range: what rounds to nothing is a zero, what
\* rounds beyond the largest double is an infinity
double_checked(a) ==
  IF a.m = <<>> THEN Double(a.sign, <<>>, 0)
  ELSE IF a.e > DoubleMaxExp THEN DoubleInf(a.sign)
  ELSE a

double_ranged(sign, n, e) ==
  IF n = <<>> THEN Double(sign, <<>>, 0)
  ELSE IF nat_bits(n) + e > DoubleMaxExp + 54 THEN DoubleInf(sign)
  ELSE double_checked(
         double_ranged_at(sign, n, e,
                          IF nat_bits(n) + e - 53 > DoubleMinExp
                          THEN nat_bits(n) + e - 53 ELSE DoubleMinExp))

\* the quotient of a by b to 60 binary digits or more, as double_of_quotient
\* reads it (twice the quotient, plus one when something is left over), and
\* the exponent that goes with it
quotient_digits(qr) == nat_add(nat_mul_small(qr.q, 2), IF qr.r = <<>> THEN <<>> ELSE << 1 >>)

double_of_fraction_at(sign, a, b, shift) ==
  double_ranged(sign, quotient_digits(nat_divmod(nat_shl(a, shift), b)), - shift - 1)

double_of_fraction(sign, a, b) ==
  double_of_fraction_at(sign, a, b,
                        IF nat_bits(b) - nat_bits(a) + 60 > 0
                        THEN nat_bits(b) - nat_bits(a) + 60 ELSE 0)

\* float() of the decimal number x (string to double, correctly rounded):
\* a double, or an infinity
double_of_decimal(x) ==
  IF x.digits = <<>> THEN Double(x.sign, <<>>, 0)
  ELSE IF x.exp >= 310 THEN DoubleInf(x.sign)
  ELSE IF x.exp <= -326 THEN Double(x.sign, <<>>, 0)
  ELSE IF x.exp - Len(x.digits) + 1 >= 0
  THEN double_ranged(x.sign,
                     nat_mul(nat_of_digits(x.digits, 1, Len(x.digits)),
                             nat_pow10(x.exp - Len(x.digits) + 1)), 0)
  ELSE double_of_fraction(x.sign, nat_of_digits(x.digits, 1, Len(x.digits)),
                          nat_pow10(Len(x.digits) - 1 - x.exp))

\* ---- repr(float): the shortest digits that read back as the double, and
\* of these the nearest to it (float_repr_style "short")

\* the double a = r / s with half the gap to the next double above, mp / s,
\* and to the next one below, mm / s; the gap below is half as wide when a is
\* a power of two
repr_start(a) ==
  LET narrow == a.m = nat_shl(<< 1 >>, 52) /\ a.e > DoubleMinExp
      w == IF narrow THEN 1 ELSE 0
  IN IF a.e >= 0
     THEN [r |-> nat_shl(a.m, a.e + 1 + w), s |-> nat_shl(<< 1 >>, 1 + w),
           mp |-> nat_shl(<< 1 >>, a.e + w), mm |-> nat_shl(<< 1 >>, a.e)]
     ELSE [r |-> nat_shl(a.m, 1 + w), s |-> nat_shl(<< 1 >>, 1 + w - a.e),
           mp |-> nat_shl(<< 1 >>, w), mm |-> << 1 >>]

\* a power of ten that is not above the double: its binary digits give it
repr_estimate(a) == (((nat_bits(a.m) + a.e - 1) * 30102) \div 100000) - 1

\* r / s taken 10^(-k) times
repr_scaled(t, k) ==
  IF k >= 0 THEN [t EXCEPT !.s = nat_mul(t.s, nat_pow10(k))]
  ELSE [t EXCEPT !.r = nat_mul(t.r, nat_pow10(- k)),
                 !.mp = nat_mul(t.mp, nat_pow10(- k)),
                 !.mm = nat_mul(t.mm, nat_pow10(- k))]

\* whether the upper end of the numbers that read back as the double reaches s
repr_high(r, mp, s, even) ==
  IF even THEN nat_cmp(nat_add(r, mp), s) >= 0 ELSE nat_cmp(nat_add(r, mp), s) > 0

\* whether the lower end is within r of the digits so far
repr_low(r, mm, even) ==
  IF even THEN nat_cmp(r, mm) <= 0 ELSE nat_cmp(r, mm) < 0

\* the digits of r / s (below 1) down to the first one at which the digits
\* so far, or they with the last one raised, read back as the double
RECURSIVE repr_generate(_, _)
repr_last(d, qr, t, even) ==
  IF repr_low(qr.r, t.mm, even)
  THEN IF ~ repr_high(qr.r, t.mp, t.s, even) THEN << d >>
       ELSE IF nat_cmp(nat_mul_small(qr.r, 2), t.s) < 0 THEN << d >>
       ELSE IF nat_cmp(nat_mul_small(qr.r, 2), t.s) > 0 THEN << d + 1 >>
       ELSE << d + (d % 2) >>
  ELSE IF repr_high(qr.r, t.mp, t.s, even) THEN << d + 1 >>
  ELSE << d >> \o repr_generate([t EXCEPT !.r = qr.r], even)

repr_digit(qr, t, even) == repr_last(limb(qr.q, 1), qr, t, even)

repr_generate(t, even) ==
  repr_digit(nat_divmod(nat_mul_small(t.r, 10), t.s),
             [t EXCEPT !.mp = nat_mul_small(@, 10), !.mm = nat_mul_small(@, 10)],
             even)

\* the power of ten k with r / s < 10^k that the digits start below, and
\* the digits
RECURSIVE repr_fixup(_, _, _)
repr_fixup(t, even, k) ==
  IF repr_high(t.r, t.mp, t.s, even)
  THEN repr_fixup([t EXCEPT !.s = nat_mul_small(@, 10)], even, k + 1)
  ELSE [k |-> k, digits |-> repr_generate(t, even)]

repr_digits(a) ==
  repr_fixup(repr_scaled(repr_start(a), repr_estimate(a)),
             limb(a.m, 1) % 2 = 0, repr_estimate(a))

\* the float a double is, by its repr
float_of_shortest(sign, g) ==
  decimal_of(sign, [i \in 1..Len(g.digits) |-> Digits[g.digits[i] + 1]], g.k - 1)

float_of_double(a) ==
  IF double_is_inf(a) THEN Infinity(a.sign)
  ELSE IF a.m = <<>> THEN [sign |-> a.sign, digits |-> <<>>, exp |-> 0]
  ELSE float_of_shortest(a.sign, repr_digits(a))

\* The float nearest to a decimal number, by its repr.  Up to 15 significant
\* digits (DBL_DIG) come back from a double as they went in, so such a number
\* well inside the range of the format is the repr of its float; a longer
\* one, or one near the ends of the range, is rounded to its double and the
\* shortest digits of that double are taken.
float_nearest(x) ==
  IF Len(x.digits) <= 15 /\ x.exp > -300 /\ x.exp < 300 THEN x
  ELSE float_of_double(double_of_decimal(x))

\* the float nearest to (-1)^sign * 0.d * 10^(e + 1)
float_of(sign, d, e) == float_nearest(decimal_of(sign, d, e))

\* str(n) of an int of either sign
signed_int_str(n) == IF n < 0 THEN << "-" >> \o int_str(- n) ELSE int_str(n)

\* the float n / 10^scale for an int n
Decimal(n, scale) ==
  IF n < 0 THEN float_of(1, int_str(- n), Len(int_str(- n)) - 1 - scale)
  ELSE float_of(0, int_str(n), Len(int_str(n)) - 1 - scale)

\* float(s) for a match s of the pattern without its commas; J_null stands
\* for the ValueError of a string without any digit
parse_float(s) ==
  LET d == SelectSeq(s, LAMBDA c : c # ".")
      p == IF \E i \in 1..Len(s) : s[i] = "." THEN CHOOSE i \in 1..Len(s) : s[i] = "." ELSE Len(s) + 1
  IN IF d = <<>> THEN J_null ELSE J_num(float_of(0, d, p - 2))

\* x == y for two floats: 0.0 == -0.0, and a NaN equals nothing
float_eq(x, y) ==
  /\ x # NaN
  /\ y # NaN
  /\ x = y \/ (x.digits = <<>> /\ y.digits = <<>>)

\* the digits of n, at least `width` of them
RECURSIVE padded(_, _)
padded(n, width) ==
  IF Len(int_str(n)) >= width THEN int_str(n) ELSE << "0" >> \o padded(n, width - 1)

\* repr of a positive float from its digits s, the first worth 10^e: the
\* exponent form below 0.0001 and from 10^16 on, the digits around a point
\* otherwise
float_repr(s, e) ==
  IF e < -4 \/ e >= 16
  THEN << s[1] >> \o (IF Len(s) > 1 THEN << "." >> \o SubSeq(s, 2, Len(s)) ELSE <<>>)
         \o (IF e < 0 THEN << "e", "-" >> \o padded(- e, 2) ELSE << "e", "+" >> \o padded(e, 2))
  ELSE IF e < 0 THEN << "0", "." >> \o [k \in 1..(- e - 1) |-> "0"] \o s
  ELSE IF Len(s) <= e + 1 THEN s \o [k \in 1..(e + 1 - Len(s)) |-> "0"] \o << ".", "0" >>
  ELSE SubSeq(s, 1, e + 1) \o << "." >> \o SubSeq(s, e + 2, Len(s))

\* str(x) of a float
float_str(x) ==
  IF x = NaN THEN x.digits
  ELSE (IF x.sign = 1 THEN << "-" >> ELSE <<>>)
         \o (IF x.digits = <<>> THEN << "0", ".", "0" >>
             ELSE IF x = Infinity(x.sign) THEN x.digits
             ELSE float_repr(x.digits, x.exp))

J_bool(b) == [k |-> "bool", v |-> b]

\* math_check of a test: `expected` is the value the test file holds, an int
\* (J_int), a float (J_num), a bool (J_bool), a string (J_str), or J_null
\* when it is None or the key is absent beside other keys
MathCheck(expected) == [k |-> "dict", v |-> expected]

\* a math_check without any key: {}
MathCheckEmpty == [k |-> "dict", v |-> J_absent]

\* bool(math_check) for a math_check that is a dictionary or None (a value
\* of another kind is either false as well or has no .get for _score_math)
math_check_given(math_check) == math_check.k = "dict" /\ math_check # MathCheckEmpty

\* BenchmarkScorer._score_math
score_math(answer, math_check) ==
  LET expected == math_check.v
      matches == find_numbers(answer, 1)
      parsed == [i \in 1..Len(matches) |->
                   parse_float(SelectSeq(matches[i], LAMBDA c : c # ","))]
      valid == SelectSeq(parsed, LAMBDA x : x.k = "num")
      numbers == [i \in 1..Len(valid) |-> valid[i].v]
      value == IF expected.k = "num" THEN expected.v
               ELSE IF expected.k = "int" THEN Decimal(expected.v, 0)
               ELSE Decimal(IF expected.k = "bool" /\ expected.v THEN 1 ELSE 0, 0)
      hit == /\ expected.k \in {"num", "int", "bool"}
             /\ \E i \in 1..Len(numbers) : float_eq(value, numbers[i])
      expected_text ==
        IF expected.k = "int" THEN signed_int_str(expected.v)
        ELSE IF expected.k = "bool"
        THEN IF expected.v THEN << "T", "r", "u", "e" >> ELSE << "F", "a", "l", "s", "e" >>
        ELSE IF expected.k = "num" THEN float_str(expected.v)
        ELSE IF expected.k = "str" THEN expected.v
        ELSE << "N", "o", "n", "e" >>
  IN [points |-> IF hit THEN 1 ELSE 0, max_points |-> 1,
      expected |-> expected, found |-> numbers,
      feedback |-> <<
        IF hit THEN << CheckMark >> \o << " ", "C", "o", "r", "r", "e", "c", "t", " ", "c", "a", "l", "c", "u", "l", "a", "t", "i", "o", "n", ":", " " >> \o expected_text
        ELSE << CrossMark >> \o << " ", "E", "x", "p", "e", "c", "t", "e", "d", " " >> \o expected_text \o << ",", " ", "f", "o", "u", "n", "d", ":", " ", "[" >>
               \o join(<< ",", " " >>, [i \in 1..Len(numbers) |-> float_str(numbers[i])])
               \o << "]" >> >>]

\* passing above five points only
passed_at_above_five(total_score) == total_score > 5

\* result["passed"] of score_response
passed_at(total_score) == total_score >= 5

\* BenchmarkScorer.score_response; `now` is datetime.utcnow(), and the
\* timestamp of the result is that reading
score_response(test, response, now) ==
  LET answer_text == response.answer
      quotes == response.json.quotes
      used_docs == response.json.used_documents
      policy_flags == response.json.policy_flags
      content_score == score_content(answer_text, test.must_include, test.must_exclude)
      citation_score == score_citations(quotes, used_docs, test.must_cite)
      quote_score == score_quotes(quotes, test.policy_expect)
      policy_score == score_policy(policy_flags, answer_text, test.policy_expect)
      math_check == test.policy_expect.math_check
      with_math == math_check_given(math_check)
      math_score == score_math(answer_text, math_check)
      total_score == content_score.points + citation_score.points + quote_score.points
                       + policy_score.points + (IF with_math THEN math_score.points ELSE 0)
      four == [content |-> content_score, citations |-> citation_score,
               quotes |-> quote_score, policy |-> policy_score]
  IN [test_id |-> test.id,
      question |-> test.question,
      answer |-> answer_text,
      timestamp |-> now,
      scores |-> IF with_math
                 THEN [content |-> content_score, citations |-> citation_score,
                       quotes |-> quote_score, policy |-> policy_score, math |-> math_score]
                 ELSE four,
      total_score |-> total_score,
      max_score |-> 7,
      passed |-> passed_at(total_score),
      feedback |-> content_score.feedback \o citation_score.feedback \o quote_score.feedback
                     \o policy_score.feedback
                     \o (IF with_math THEN math_score.feedback ELSE <<>>)]

\* ---- inputs

MaxClock == 1
MaxScorings == 2

Test(id, question_text, must_include, must_exclude, must_cite, policy_expect) ==
  [id |-> id, question |-> question_text, must_include |-> must_include,
   must_exclude |-> must_exclude, must_cite |-> must_cite, policy_expect |-> policy_expect]

Response(answer, quotes, used_documents, policy_flags) ==
  [answer |-> answer,
   json |-> [quotes |-> quotes, used_documents |-> used_documents, policy_flags |-> policy_flags]]

W_refund == << "r", "e", "f", "u", "n", "d" >>
W_days == << "3", "0", " ", "d", "a", "y", "s" >>
W_fee == << "f", "e", "e" >>
F_policy == << "p", "o", "l", "i", "c", "y", ".", "p", "d", "f" >>
F_terms == << "t", "e", "r", "m", "s", ".", "p", "d", "f" >>
F_faq == << "f", "a", "q", ".", "p", "d", "f" >>
Flag_low == << "l", "o", "w", "_", "r", "e", "l", "e", "v", "a", "n", "c", "e" >>
Flag_blocked == << "b", "l", "o", "c", "k", "e", "d", "_", "t", "o", "p", "i", "c" >>

IncludePool ==
  { <<>>, << W_refund, W_days >>, << << "R", "E", "F", "U", "N", "D" >> >>, << W_refund, W_days, W_fee >> }

ExcludePool == { <<>>, << << "L", "a", "w", "s", "u", "i", "t" >> >> }

CitePool == { <<>>, << F_policy >>, << F_policy, F_terms >>, << F_policy, F_terms, F_faq >> }

ExpectPool ==
  { PolicyExpect(<<>>, <<>>, J_null, 0, J_null, J_null),
    PolicyExpect(<< Flag_low >>, <<>>, J_str(W_refund), 1, J_int(3), MathCheck(J_int(12450))),
    PolicyExpect(<<>>, << Flag_blocked >>, J_str(<< "R", "e", "f", "u", "n", "d" >>), 0, J_null, MathCheck(J_num(Decimal(3, 0)))),
    PolicyExpect(<<>>, <<>>, J_null, 2, J_null, J_null),
    PolicyExpect(<<>>, <<>>, J_null, 0, J_int(0), MathCheck(J_num(Decimal(5, 1)))),
    PolicyExpect(<<>>, <<>>, J_null, 0, J_null, MathCheckEmpty) }

AnswerPool ==
  { << "R", "e", "f", "u", "n", "d", " ", "o", "k" >>,
    << "r", "e", "f", "u", "n", "d", ",", " ", "3", "0", " ", "d", "a", "y", "s", ".", " ", "S", "A", "R", " ", "1", "2", ",", "4", "5", "0", ".", "0", "0" >>,
    << "r", "e", "f", "u", "n", "d", " ", "l", "a", "w", "s", "u", "i", "t", " ", "3", ",", " ", "f", "e", "e", " ", "0", ".", "5", "0" >>,
    << "r", "e", "f", "u", "n", "d", " ", "r", "a", "t", "e", " ", "0", ".", "5", "0", "0", "0", "0", "0", "0", "0", "0", "0", "0", "0", "0", "0", "0", "0", "0", "5", "5", ",", " ", "i", "d", " ", "9", "0", "0", "7", "1", "9", "9", "2", "5", "4", "7", "4", "0", "9", "9", "3" >> }

Q_source(source) == Quote(<< "q" >>, source)

JsonPool ==
  { [quotes |-> << Q_source(<< "l", "e", "g", "a", "l", "/", "p", "o", "l", "i", "c", "y", ".", "p", "d", "f" >>) >>, used_documents |-> <<>>,
     policy_flags |-> <<>>],
    [quotes |-> <<>>,
     used_documents |-> << DocStr(F_terms), DocDict(<<>>, F_policy) >>,
     policy_flags |-> << Flag_low >>],
    [quotes |-> << Q_source(<<>>), Q_source(<<>>), Q_source(F_faq), Q_source(<<>>) >>,
     used_documents |-> << DocDict(<< "n", "o", "t", "e", "s", ".", "t", "x", "t" >>, F_policy), DocOther >>,
     policy_flags |-> << Flag_blocked, Flag_low >>],
    [quotes |-> <<>>, used_documents |-> <<>>, policy_flags |-> <<>>] }

other_than_grade == << chunk_vars, agent_vars, gate_vars, cand_vars, mem_vars, thread_vars, score_vars, debug_vars >>

GradeInit ==
  /\ \E mi \in IncludePool, me \in ExcludePool, mc \in CitePool, pe \in ExpectPool :
       b_test = Test(<< "t", "1" >>, << "q", "?" >>, mi, me, mc, pe)
  /\ \E a \in AnswerPool, j \in JsonPool :
       b_response = [answer |-> a, json |-> j]
  /\ b_clock = 0
  /\ b_results = <<>>
  /\ ChunkIdle
  /\ AgentIdle
  /\ GateIdle
  /\ CandIdle
  /\ MemIdle
  /\ ThreadsIdle
  /\ ScoreIdle
  /\ DebugIdle

\* one call of score_response
ScoreResponse ==
  /\ b_test # <<>>
  /\ Len(b_results) < MaxScorings
  /\ b_results' = Append(b_results, score_response(b_test, b_response, b_clock))
  /\ UNCHANGED << b_test, b_response, b_clock >>
  /\ UNCHANGED other_than_grade

\* time passes
ClockTick ==
  /\ b_test # <<>>
  /\ b_clock < MaxClock
  /\ b_clock' = b_clock + 1
  /\ UNCHANGED << b_test, b_response, b_results >>
  /\ UNCHANGED other_than_grade

GradeNext == ScoreResponse \/ ClockTick

SpecGrade == GradeInit /\ [][GradeNext]_vars

\* ------------------------------------ query and query_debug, side by side

\* what a capability does when it is called: it returns v, or it raises
Returned(v) == [raised |-> FALSE, v |-> v]
Raised == [raised |-> TRUE, v |-> <<>>]

\* _ensure_entity_inclusion, the loop of supplementary searches: responses[i]
\* answers the search for the i-th token; an exception ends the loop and
\* keeps what was found
RECURSIVE searched_must(_, _, _)
searched_must(toks, responses, i) ==
  IF i > Len(toks) \/ responses[i].raised THEN <<>>
  ELSE entity_must(toks, responses[i].v) \o searched_must(toks, responses, i + 1)

\* RAGAgent._ensure_entity_inclusion(question, docs)
ensure_entity_inclusion(q, docs, responses) ==
  LET toks == entity_tokens_of(q)
      m == entity_must(toks, docs)
  IN IF toks = <<>> THEN docs
     ELSE entity_front_load(IF m # <<>> THEN m ELSE searched_must(toks, responses, 1),
                            docs)

\* RAGAgent._low_relevance(question, reranked_docs)
low_relevance(pol, q, reranked_docs, response) ==
  LET g == low_relevance_before_search(q, reranked_docs)
  IN IF g = "low" THEN TRUE
     ELSE IF g = "ok" THEN FALSE
     ELSE IF response.raised THEN low_relevance_search_raised
     ELSE low_relevance_after_search(pol, response.v)

\* A call of query or of query_debug on an agent.  `status` says where the
\* call stands: "started"; "retriever", "vectordb", "llm" while it waits for
\* the answer of that capability; "log" while it emits its log records and
\* writes the run record, with the answer it is about to remember in
\* `answer` and `json`, or the exception it is about to be left by in `exc`;
\* "returned" or "raised" when it is over.
\* `turns` is what the memory of the agent holds for the conversation by
\* now, `others` counts the turns that queries of other callers have added
\* to it since the call started.
Started(turns) ==
  [status |-> "started", answer |-> <<>>, json |-> EmptyObj, exc |-> "",
   turns |-> turns, others |-> 0]

Waits == {"retriever", "vectordb", "llm", "log"}

\* the call goes on to wait for a capability
waiting_for(call, capability) == [call EXCEPT !.status = capability]

\* the call is over
is_over(call) == call.status \in {"returned", "raised"}

\* the call returns {"answer": ans, "json": obj} after _log and memory.add,
\* which appends to the memory as it is by then
returned_outcome(pol, call, q, ans, obj) ==
  [call EXCEPT !.status = "returned", !.answer = ans, !.json = obj,
               !.turns = memory_add(call.turns, q, ans, pol.memory.max_turns)]

\* the call is left by exception e: nothing was remembered
raised_outcome(call, e) ==
  [call EXCEPT !.status = "raised", !.answer = <<>>, !.json = EmptyObj, !.exc = e]

\* the call goes on to logger.warning / logger.info and _log, on its way to
\* memory.add and the return of {"answer": ans, "json": obj}, or to the
\* exception e that one of the statements after the first log record raises
logging_outcome(call, ans, obj, e) ==
  [call EXCEPT !.status = "log", !.answer = ans, !.json = obj, !.exc = e]

\* the log records are out: the exception, or memory.add and the return
logged_outcome(pol, call, q) ==
  IF call.exc # "" THEN raised_outcome(call, call.exc)
  ELSE returned_outcome(pol, call, q, call.answer, call.json)

\* retrieve, filter off-topic, lexical rerank, ensure entity inclusion
context_docs(pol, n, env) ==
  ensure_entity_inclusion(n, rerank_with_lexical(n, filter_offtopic_docs(pol, env.retrieval.v)),
                          env.entity)

\* from the answer of llm.invoke to _log: parse, scrub, finalize; memory.add
\* raises after _log when the answer text is no string
generated_outcome(pol, call, q, response) ==
  IF response.raised THEN raised_outcome(call, "llm")
  ELSE LET pr == parse_raw(pol, response.v)
           sc == scrub_parsed(pol, pr.parsed)
           parsed == finalize_parsed(pol, sc.parsed)
       IN IF exception_before_log(pr, sc) # ""
          THEN raised_outcome(call, exception_before_log(pr, sc))
          ELSE IF exception_after_log(sc) # ""
          THEN logging_outcome(call, <<>>, EmptyObj, exception_after_log(sc))
          ELSE logging_outcome(call, human_answer_of(parsed), parsed, "")

\* RAGAgent.query(question, conversation_id), from where the call stands to
\* its next wait or to its end: the pre-check up to retriever.invoke or to
\* the log records of the blocked answer; the retrieved documents up to the
\* searches of the vector store; entity inclusion and the relevance gate up
\* to llm.invoke or to the log records of the low-relevance answer; the
\* generated text up to _log; memory.add and the return
query_outcome(pol, call, q, env) ==
  LET n == normalize_query_aliases(q)
  IN IF call.status = "started"
     THEN IF is_blocked(pol, q) # ""
          THEN logging_outcome(call, pol.fallback.off_domain_message,
                               fallback_json(pol, pol.fallback.off_domain_message,
                                             is_blocked(pol, q)), "")
          ELSE waiting_for(call, "retriever")
     ELSE IF call.status = "retriever"
     THEN IF env.retrieval.raised THEN raised_outcome(call, "retriever")
          ELSE waiting_for(call, "vectordb")
     ELSE IF call.status = "vectordb"
     THEN IF low_relevance(pol, n, context_docs(pol, n, env), env.score)
          THEN logging_outcome(call, pol.fallback.off_topic_message,
                               fallback_json(pol, pol.fallback.off_topic_message, "low_relevance"),
                               "")
          ELSE waiting_for(call, "llm")
     ELSE IF call.status = "llm"
     THEN generated_outcome(pol, call, q, env.raw)
     ELSE logged_outcome(pol, call, q)

\* query_debug's blocked branch: after its four log records the dictionary
\* is built with policies["disclosures"]["disclaimer"], before _log and
\* memory.add
blocked_debug_outcome(pol, call, q, blocked) ==
  IF "disclaimer" \notin DOMAIN pol.disclosures
  THEN logging_outcome(call, <<>>, EmptyObj, "KeyError")
  ELSE logging_outcome(call, pol.fallback.off_domain_message,
                       [fallback_json(pol, pol.fallback.off_domain_message, blocked)
                          EXCEPT !.disclaimer = J_str(pol.disclosures.disclaimer)], "")

\* RAGAgent.query_debug(question, conversation_id), without the "debug" entry
\* of what it returns, from where the call stands to its next wait or to its
\* end.  The distance dump asks similarity_search_with_score once more and
\* drops the answer or the exception.
query_debug_outcome(pol, call, q, env) ==
  LET n == normalize_query_aliases(q)
      docs == context_docs(pol, n, env)
  IN IF call.status = "started"
     THEN IF is_blocked(pol, q) # "" THEN blocked_debug_outcome(pol, call, q, is_blocked(pol, q))
          ELSE waiting_for(call, "retriever")
     ELSE IF call.status = "retriever"
     THEN IF env.retrieval.raised THEN raised_outcome(call, "retriever")
          ELSE waiting_for(call, "vectordb")
     ELSE IF call.status = "vectordb"
     THEN IF low_relevance(pol, n, docs, env.score) \/ docs = <<>>
          THEN logging_outcome(call, pol.fallback.off_topic_message,
                               fallback_json(pol, pol.fallback.off_topic_message, "low_relevance"),
                               "")
          ELSE waiting_for(call, "llm")
     ELSE IF call.status = "llm"
     THEN generated_outcome(pol, call, q, env.raw)
     ELSE logged_outcome(pol, call, q)

\* the turn a query of another caller adds to the same conversation
OtherTurn == OldTurn2

\* ConversationMemory.add of that query, landing while the call waits
other_caller_adds(pol, call) ==
  [call EXCEPT !.turns = memory_add(@, OtherTurn.q, OtherTurn.a, pol.memory.max_turns),
               !.others = @ + 1]

Msg_disclaimer == << "I", "n", "f", "o", " ", "o", "n", "l", "y", "." >>

\* a policies_dict from the settings store whose disclosures carry a
\* "disclaimer" next to the default "legal"
PolicyDisclaimer ==
  [ PolicyDefault EXCEPT !.disclosures = [legal |-> Msg_legal, disclaimer |-> Msg_disclaimer] ]

DebugPolicyPool == {PolicyDefault, PolicyCustom, PolicyDisclaimer, PolicyUnchecked}

DebugTurnsPool == { <<>>, << OldTurn1 >> }

DebugRetrievalPool ==
  {Raised} \cup {Returned(d) : d \in { <<>>, << D_t >>, << D_z >>, << D_z, D_c >>, << D_z, D_t >> }}

\* the answers to the three supplementary searches
DebugEntityPool ==
  { << Raised, Raised, Raised >>,
    << Returned(<<>>), Returned(<< D_z, D_cc >>), Raised >>,
    << Returned(<<>>), Returned(<<>>), Returned(<<>>) >> }

DebugScorePool ==
  {Raised} \cup {Returned(h) : h \in { <<>>, << Score(40) >>, << Score(120) >> }}

DebugRawPool ==
  {Raised} \cup {Returned(r) : r \in { RawText("object", "object", Obj_plain),
                                      RawText("object", "object", Obj_banned),
                                      RawText("object", "object", Obj_null_quotes),
                                      RawText("invalid", "none", EmptyObj) }}

\* a call not made yet
NoOutcome == [status |-> "none"]

\* the turns other callers add while one call waits, at most
MaxOthers == 1

other_than_debug == << chunk_vars, agent_vars, gate_vars, cand_vars, mem_vars, thread_vars, score_vars, grade_vars >>

DebugInit ==
  /\ d_policies \in DebugPolicyPool
  /\ d_turns \in DebugTurnsPool
  /\ d_question \in QuestionPool
  /\ d_env \in [retrieval : DebugRetrievalPool, entity : DebugEntityPool,
                score : DebugScorePool, raw : DebugRawPool]
  /\ d_query = NoOutcome
  /\ d_debug = NoOutcome
  /\ ChunkIdle
  /\ AgentIdle
  /\ GateIdle
  /\ CandIdle
  /\ MemIdle
  /\ ThreadsIdle
  /\ ScoreIdle
  /\ GradeIdle

\* query(question) on an agent in the starting state: up to retriever.invoke,
\* or to the log records of the blocked answer
CallQuery ==
  /\ d_query = NoOutcome
  /\ d_query' = query_outcome(d_policies, Started(d_turns), d_question, d_env)
  /\ UNCHANGED << d_policies, d_turns, d_question, d_env, d_debug >>
  /\ UNCHANGED other_than_debug

\* retriever.invoke answers the call
QueryRetrieved ==
  /\ d_query.status = "retriever"
  /\ d_query' = query_outcome(d_policies, d_query, d_question, d_env)
  /\ UNCHANGED << d_policies, d_turns, d_question, d_env, d_debug >>
  /\ UNCHANGED other_than_debug

\* the vector store has answered the searches of the call
QuerySearched ==
  /\ d_query.status = "vectordb"
  /\ d_query' = query_outcome(d_policies, d_query, d_question, d_env)
  /\ UNCHANGED << d_policies, d_turns, d_question, d_env, d_debug >>
  /\ UNCHANGED other_than_debug

\* llm.invoke answers the call
QueryGenerated ==
  /\ d_query.status = "llm"
  /\ d_query' = query_outcome(d_policies, d_query, d_question, d_env)
  /\ UNCHANGED << d_policies, d_turns, d_question, d_env, d_debug >>
  /\ UNCHANGED other_than_debug

\* the log records are emitted and the run record is written: memory.add and
\* the return
QueryLogged ==
  /\ d_query.status = "log"
  /\ d_query' = query_outcome(d_policies, d_query, d_question, d_env)
  /\ UNCHANGED << d_policies, d_turns, d_question, d_env, d_debug >>
  /\ UNCHANGED other_than_debug

\* the query of another caller on the same conversation ends while the call
\* of query waits in a capability or in its logging
OtherCallerAddsDuringQuery ==
  /\ d_query.status \in Waits
  /\ d_query.others < MaxOthers
  /\ d_query' = other_caller_adds(d_policies, d_query)
  /\ UNCHANGED << d_policies, d_turns, d_question, d_env, d_debug >>
  /\ UNCHANGED other_than_debug

\* query_debug(question) on a second agent in the same starting state, called
\* when the call of query is over: the two agents share nothing
CallQueryDebug ==
  /\ d_debug = NoOutcome
  /\ d_query # NoOutcome
  /\ is_over(d_query)
  /\ d_debug' = query_debug_outcome(d_policies, Started(d_turns), d_question, d_env)
  /\ UNCHANGED << d_policies, d_turns, d_question, d_env, d_query >>
  /\ UNCHANGED other_than_debug

DebugRetrieved ==
  /\ d_debug.status = "retriever"
  /\ d_debug' = query_debug_outcome(d_policies, d_debug, d_question, d_env)
  /\ UNCHANGED << d_policies, d_turns, d_question, d_env, d_query >>
  /\ UNCHANGED other_than_debug

DebugSearched ==
  /\ d_debug.status = "vectordb"
  /\ d_debug' = query_debug_outcome(d_policies, d_debug, d_question, d_env)
  /\ UNCHANGED << d_policies, d_turns, d_question, d_env, d_query >>
  /\ UNCHANGED other_than_debug

DebugGenerated ==
  /\ d_debug.status = "llm"
  /\ d_debug' = query_debug_outcome(d_policies, d_debug, d_question, d_env)
  /\ UNCHANGED << d_policies, d_turns, d_question, d_env, d_query >>
  /\ UNCHANGED other_than_debug

DebugLogged ==
  /\ d_debug.status = "log"
  /\ d_debug' = query_debug_outcome(d_policies, d_debug, d_question, d_env)
  /\ UNCHANGED << d_policies, d_turns, d_question, d_env, d_query >>
  /\ UNCHANGED other_than_debug

\* the same while the call of query_debug waits
OtherCallerAddsDuringDebug ==
  /\ d_debug.status \in Waits
  /\ d_debug.others < MaxOthers
  /\ d_debug' = other_caller_adds(d_policies, d_debug)
  /\ UNCHANGED << d_policies, d_turns, d_question, d_env, d_query >>
  /\ UNCHANGED other_than_debug

DebugNext ==
  \/ CallQuery
  \/ QueryRetrieved
  \/ QuerySearched
  \/ QueryGenerated
  \/ QueryLogged
  \/ OtherCallerAddsDuringQuery
  \/ CallQueryDebug
  \/ DebugRetrieved
  \/ DebugSearched
  \/ DebugGenerated
  \/ DebugLogged
  \/ OtherCallerAddsDuringDebug

SpecDebug == DebugInit /\ [][DebugNext]_vars

\* =================================================================== claims

\* ------------------------------------------------------------ chunker

has_table_markup(text) == contains(text, TableOpen) \/ contains(text, TableClose)

\* heading section of the element at position p: the number of heading
\* elements at positions 1..p (0 before the first heading)
section_of(p) == Cardinality({k \in 1..p : is_heading_type(elements[k].type)})

chunk_positions(ch) == {ch.from_pos[k] : k \in 1..Len(ch.from_pos)} \cup ch.carry

\* the chunk_id values of a list of chunks, in order
ids_of(chunks) == [i \in 1..Len(chunks) |-> chunks[i].chunk_id]

ChunkIds == ids_of(cs.chunks)

\* C1: every emitted chunk has tokens <= max_tokens, except the chunks
\* emitted by the flush of the oversized-element split loop.
C1_ChunksWithinBudget ==
  \A i \in 1..Len(cs.chunks) :
    cs.chunks[i].via # "split" => cs.chunks[i].tokens <= options.max_tokens

\* C2: a chunk contains table markup only if keep_tables_intact is true and
\* one of the elements it was built from is a table (by type or by carrying
\* table_html).
C2_MarkupOnlyForKeptTables ==
  \A i \in 1..Len(cs.chunks) :
    has_table_markup(cs.chunks[i].text) =>
      /\ options.keep_tables_intact
      /\ \E p \in chunk_positions(cs.chunks[i]) :
           is_table_type(elements[p].type) \/ elements[p].table_html # <<>>

\* C3: with keep_tables_intact, when chunk_elements has returned, the whole
\* representation of every table element lies inside one emitted chunk.
C3_TablesNeverSplit ==
  (phase = "done" /\ options.keep_tables_intact) =>
    \A p \in 1..Len(elements) :
      (is_table_type(elements[p].type) /\ representation_of(elements[p], options) # <<>>)
        => \E i \in 1..Len(cs.chunks) :
             contains(cs.chunks[i].text, representation_of(elements[p], options))

\* C4: with respect_headings, all elements a chunk was built from (the
\* elements of from_elements and the elements its carried-over overlap text
\* was cut from) lie in one heading section.
C4_ChunkWithinOneSection ==
  options.respect_headings =>
    \A i \in 1..Len(cs.chunks) :
      \A p, q \in chunk_positions(cs.chunks[i]) : section_of(p) = section_of(q)

\* C4 witness: a finished run with respect_headings in which a chunk carries
\* overlap text and a later chunk belongs to another heading section.
C4_Witness ==
  /\ phase = "done"
  /\ options.respect_headings
  /\ \E i, j \in 1..Len(cs.chunks) :
       /\ i < j
       /\ cs.chunks[i].carry # {}
       /\ cs.chunks[i].from_pos # <<>>
       /\ cs.chunks[j].from_pos # <<>>
       /\ section_of(cs.chunks[i].from_pos[1]) # section_of(cs.chunks[j].from_pos[1])

\* C5: chunk identifiers are a function of the chunk's text and contributing
\* element ids alone: two chunks that agree on both agree on the identifier,
\* wherever they stand in the output and whichever of the two calls made
\* them; and the call repeated on the same elements and options, after the
\* first one and with another source_info, returns the identifier sequence
\* the first call returned.
C5_ChunkIdsDeterministic ==
  /\ \A i, j \in 1..Len(cs.chunks) :
       (cs.chunks[i].text = cs.chunks[j].text
          /\ cs.chunks[i].from_elements = cs.chunks[j].from_elements)
         => cs.chunks[i].chunk_id = cs.chunks[j].chunk_id
  /\ \A i \in 1..Len(cs.chunks), j \in 1..Len(prev_chunks) :
       (cs.chunks[i].text = prev_chunks[j].text
          /\ cs.chunks[i].from_elements = prev_chunks[j].from_elements)
         => cs.chunks[i].chunk_id = prev_chunks[j].chunk_id
  /\ (run = 2 /\ phase = "done") => ChunkIds = ids_of(prev_chunks)

\* C5 witness: the repeated call has returned; its chunks name another source
\* than the chunks of the first call, and its output holds two chunks at
\* different places with the same text and contributing ids.
C5_Witness ==
  /\ run = 2
  /\ phase = "done"
  /\ Len(prev_chunks) = Len(cs.chunks)
  /\ \A i \in 1..Len(cs.chunks) : cs.chunks[i].source # prev_chunks[i].source
  /\ \E i, j \in 1..Len(cs.chunks) :
       /\ i < j
       /\ cs.chunks[i].text = cs.chunks[j].text
       /\ cs.chunks[i].from_elements = cs.chunks[j].from_elements

\* ---------------------------------------------------------- query agent

\* the question itself matches one of the blocked patterns
matches_blocked_regex ==
  \E i \in 1..Len(policies.blocked_regex) : re_search(policies.blocked_regex[i], question, FALSE)

items_of(m) == {m.v[i] : i \in 1..Len(m.v)}

\* the caller was given the decoded answer (return_raw_json, or one of the
\* early returns)
has_json == "json" \in DOMAIN result

\* C6: once query has been called with a question that matches a blocked
\* pattern, the call is over in the same step: it has returned the off-domain
\* message as the answer, with policy_flags exactly ["blocked_regex"], no
\* quotes and no used documents, and no retrieval, no similarity search and no
\* generation call was made for it.
C6_BlockedRegexShortCircuit ==
  (pc \notin {"off", "idle"} /\ matches_blocked_regex) =>
    /\ pc = "returned"
    /\ result.answer = policies.fallback.off_domain_message
    /\ result.json.answer_text = J_str(policies.fallback.off_domain_message)
    /\ result.json.policy_flags = J_list(<< "blocked_regex" >>)
    /\ result.json.quotes = J_list(<<>>)
    /\ result.json.used_documents = J_list(<<>>)
    /\ calls = ZeroCalls

\* the short circuit on the questions the pre-check does report: once query
\* has been called with a question for which _is_blocked says blocked_regex,
\* the call is over in the same step with the off-domain answer, and no
\* retrieval, similarity search or generation call was made
ReportedRegexShortCircuit ==
  (pc \notin {"off", "idle"} /\ is_blocked(policies, question) = "blocked_regex") =>
    /\ pc = "returned"
    /\ result.answer = policies.fallback.off_domain_message
    /\ result.json.policy_flags = J_list(<< "blocked_regex" >>)
    /\ result.json.quotes = J_list(<<>>)
    /\ result.json.used_documents = J_list(<<>>)
    /\ calls = ZeroCalls

\* a question that matches a blocked pattern as given, and not once it is
\* lower-cased, has gone on to retrieval
UnreportedRegexRetrieved ==
  /\ matches_blocked_regex
  /\ is_blocked(policies, question) = ""
  /\ calls.retriever = 1

\* the answer decoded from the generated text contains a banned phrase
parsed_has_banned_phrase ==
  /\ parse_raw(policies, raw).exc = ""
  /\ parse_raw(policies, raw).dict
  /\ parse_raw(policies, raw).parsed.quotes.k # "null"
  /\ banned_hits(policies, parse_raw(policies, raw).parsed) # {}

\* C7: when the decoded answer's text or one of its quote texts matches a
\* banned phrase, the returned answer has banned_phrase_detected among its
\* policy_flags, whatever policy_flags the generated text had, its answer
\* text is the fallback message, and its quotes and reasoning outline are empty.
C7_ScrubFlagsBannedPhrase ==
  (pc = "returned" /\ path = "generated" /\ has_json /\ parsed_has_banned_phrase) =>
    /\ result.json.policy_flags.k = "list"
    /\ "banned_phrase_detected" \in items_of(result.json.policy_flags)
    /\ result.json.answer_text = J_str(policies.fallback.off_topic_message)
    /\ result.json.quotes = J_list(<<>>)
    /\ result.json.reasoning_outline = J_list(<<>>)

FallbackMessages ==
  { policies.fallback.off_topic_message, policies.fallback.off_domain_message,
    policies.fallback.low_confidence_message }

\* C8: whatever text the generation capability returned, query returns an
\* answer; and when neither the whole text nor its brace-delimited span
\* decodes, the answer is the degraded one: a fallback message, no quotes, no
\* reasoning outline, no used documents, no policy flags.
C8_ParsingNeverFatal ==
  (pc \in {"returned", "raised"} /\ calls.llm = 1 /\ exc # "llm") =>
    /\ pc = "returned"
    /\ (raw.whole = "invalid" /\ raw.span # "object" /\ has_json) =>
         /\ result.answer \in FallbackMessages
         /\ result.json.answer_text = J_str(result.answer)
         /\ result.json.quotes = J_list(<<>>)
         /\ result.json.reasoning_outline = J_list(<<>>)
         /\ result.json.used_documents = J_list(<<>>)
         /\ result.json.policy_flags = J_list(<<>>)

\* C9, as stated: every answer query returns, on whichever return statement,
\* has at most answer_style.max_quotes quotes and at most
\* answer_style.max_reasoning_bullets reasoning bullets, has no used
\* documents when it has no quotes, and carries the legal disclaimer text.
C9_ReturnedAnswerWithinMaxima ==
  (pc = "returned" /\ has_json) =>
    /\ result.json.quotes.k = "list"
    /\ Len(result.json.quotes.v) <= policies.answer_style.max_quotes
    /\ result.json.reasoning_outline.k = "list"
    /\ Len(result.json.reasoning_outline.v) <= policies.answer_style.max_reasoning_bullets
    /\ (result.json.quotes.v = <<>> => result.json.used_documents = J_list(<<>>))
    /\ result.json.disclaimer = J_str(policies.disclosures.legal)

\* the quotes and the reasoning bullets of the decoded answer as the scrub
\* left them, before the cut to the maxima
scrubbed_list(key) ==
  get_list(scrub_parsed(policies, parse_raw(policies, raw).parsed).parsed[key])

\* the length of l[:n]
cut_length(l, n) ==
  IF n >= 0 THEN (IF Len(l) < n THEN Len(l) ELSE n)
  ELSE IF Len(l) + n > 0 THEN Len(l) + n ELSE 0

\* C9, amended: every answer query returns, on whichever return statement,
\* has quotes and reasoning bullets that are lists, has no used documents
\* when it has no quotes, and carries the legal disclaimer text; it has at
\* most answer_style.max_quotes quotes when that maximum is not negative, and
\* at most answer_style.max_reasoning_bullets reasoning bullets when that
\* maximum is not negative.  Under a negative maximum n the early returns
\* have none, and a generated answer has what the scrub left without its
\* last -n items.
C9_ReturnedAnswerWellFormed ==
  (pc = "returned" /\ has_json) =>
    /\ result.json.quotes.k = "list"
    /\ result.json.reasoning_outline.k = "list"
    /\ policies.answer_style.max_quotes >= 0
         => Len(result.json.quotes.v) <= policies.answer_style.max_quotes
    /\ policies.answer_style.max_reasoning_bullets >= 0
         => Len(result.json.reasoning_outline.v) <= policies.answer_style.max_reasoning_bullets
    /\ path # "generated"
         => result.json.quotes.v = <<>> /\ result.json.reasoning_outline.v = <<>>
    /\ path = "generated"
         => /\ Len(result.json.quotes.v)
                 = cut_length(scrubbed_list("quotes"), policies.answer_style.max_quotes)
            /\ Len(result.json.reasoning_outline.v)
                 = cut_length(scrubbed_list("reasoning_outline"),
                              policies.answer_style.max_reasoning_bullets)
    /\ (result.json.quotes.v = <<>> => result.json.used_documents = J_list(<<>>))
    /\ result.json.disclaimer = J_str(policies.disclosures.legal)

\* C9 witness: a generated answer has been returned whose decoded text had
\* more quotes and more reasoning bullets than the policy's maxima, which
\* are not negative, and named used documents.
C9_Witness ==
  /\ pc = "returned"
  /\ path = "generated"
  /\ ~ parsed_has_banned_phrase
  /\ policies.answer_style.max_quotes >= 0
  /\ policies.answer_style.max_reasoning_bullets >= 0
  /\ Len(get_list(parse_raw(policies, raw).parsed.quotes)) > policies.answer_style.max_quotes
  /\ Len(get_list(parse_raw(policies, raw).parsed.reasoning_outline))
       > policies.answer_style.max_reasoning_bullets
  /\ has_json
  /\ result.json.quotes.v # <<>>
  /\ result.json.used_documents.v # <<>>

\* C9 witness under negative maxima: a generated answer has been returned
\* that has a quote left of the two its decoded text had.
C9_WitnessNegativeMaximum ==
  /\ pc = "returned"
  /\ path = "generated"
  /\ has_json
  /\ policies.answer_style.max_quotes < 0
  /\ Len(get_list(parse_raw(policies, raw).parsed.quotes)) = 2
  /\ Len(result.json.quotes.v) = 1

\* C9 witness for the clearing of used_documents: a generated answer without
\* quotes whose decoded text named a used document.
C9_WitnessCleared ==
  /\ pc = "returned"
  /\ path = "generated"
  /\ ~ parsed_has_banned_phrase
  /\ get_list(parse_raw(policies, raw).parsed.quotes) = <<>>
  /\ get_list(parse_raw(policies, raw).parsed.used_documents) # <<>>
  /\ has_json
  /\ result.json.used_documents = J_list(<<>>)

\* ------------------------------------------------------- relevance gate

\* the entity override: the question names a tracked alias (client b before
\* client x before client c when it names several) and one of the first five
\* candidates has a variant of that alias in its source name or its body
entity_override ==
  /\ entity_tokens_of(g_question) # <<>>
  /\ \E i \in 1..Len(g_docs) :
       /\ i <= 5
       /\ \E k \in 1..Len(entity_tokens_of(g_question)) :
            \/ contains(lower(g_docs[i].source), entity_tokens_of(g_question)[k])
            \/ contains(lower(g_docs[i].page_content), entity_tokens_of(g_question)[k])

\* the top candidate's lexical-overlap score, the double the function
\* returns, is below the double 0.12
top_lexical_below ==
  double_cmp(score_double(lexical_overlap_score(g_question, g_docs[1].page_content)),
             Twelve) < 0

\* the fresh search succeeded and none of its distances is within the ceiling
no_distance_within_ceiling ==
  /\ g_hits.k = "scores"
  /\ \A i \in 1..Len(g_hits.v) :
       ~ (g_hits.v[i].num /\ g_hits.v[i].val <= g_policies.retrieval.min_distance)

\* C10: _low_relevance returns true exactly when the candidate list is empty,
\* or when no entity override applies, the top candidate's lexical overlap is
\* below 0.12, the fresh similarity search succeeds and none of its distances
\* is at most the configured ceiling; with an empty list, an entity override
\* or a lexical overlap of at least 0.12 it issues no similarity search, and
\* in every other case it issues exactly one.
C10_GateDecisionOrder ==
  g_pc = "done" =>
    /\ g_low <=> \/ g_docs = <<>>
                 \/ /\ ~ entity_override
                    /\ top_lexical_below
                    /\ no_distance_within_ceiling
    /\ g_searches = IF g_docs = <<>> \/ entity_override \/ ~ top_lexical_below
                    THEN 0 ELSE 1

\* C10 witness: the gate answered low relevance after a search whose
\* distances were all above the ceiling, for a question that names an alias
\* found only in the sixth candidate.
C10_Witness ==
  /\ g_pc = "done"
  /\ g_low
  /\ g_searches = 1
  /\ g_hits.v # <<>>
  /\ Len(g_docs) = 6
  /\ entity_tokens_of(g_question) # <<>>
  /\ hits_entity(g_docs[6], entity_tokens_of(g_question))

\* C10 witness at the threshold: the top candidate's overlap is 0.12 as a
\* number (3 / sqrt(5 * 125)) and below 0.12 as the double the function
\* returns, and the gate went on to its search.
C10_WitnessRoundedBelow ==
  /\ g_pc = "done"
  /\ g_searches = 1
  /\ lexical_overlap_score(g_question, g_docs[1].page_content)
       = [inter |-> 3, q |-> 5, t |-> 125]
  /\ top_lexical_below

\* --------------------------------------------- claims: failing capabilities

\* C11: when the similarity search of the gate's distance check raises, the
\* gate answers "not low relevance" and the query goes on to generation: the
\* call is then at the LLM call or past it, it did not take the low-relevance
\* return, and if it raised, the exception is not the search's but one of the
\* generation step.
C11_GateSearchFailurePermissive ==
  "similarity_search_with_score" \in thrown =>
    /\ pc \in {"generate", "returned", "raised"}
    /\ pc # "generate" => calls.llm = 1
    /\ path # "low_relevance"
    /\ pc = "returned" => path = "generated"
    /\ pc = "raised" => exc \in {"llm", "JSONDecodeError", "AttributeError", "TypeError"}

\* C11 witness: a query whose distance check raised returned a generated
\* answer.
C11_Witness ==
  /\ "similarity_search_with_score" \in thrown
  /\ pc = "returned"
  /\ path = "generated"
  /\ calls.similarity_search_with_score = 1
  /\ calls.llm = 1

\* the exceptions that arise after llm.invoke returned, from the generated text
ParsingExceptions == {"JSONDecodeError", "AttributeError", "TypeError"}

\* C15: failures of the external capabilities are not masked: whenever the
\* retriever's search, a supplementary entity search or the generation call
\* raised during a query, the query has raised that exception to its caller;
\* only the search of the gate's distance check is exempt.
C15_FailuresNotMasked ==
  \A c \in thrown \ {"similarity_search_with_score"} : pc = "raised" /\ exc = c

\* C15 as the code has it: the retriever's and the generation call's exceptions
\* reach the caller, while a raising supplementary entity search is caught
\* like the gate's search: the query goes on to the gate and, unless it is
\* gated, to generation, and if it raises it is for a later failure.
C15_FailuresMaskedInGateAndInclusion ==
  /\ "retriever" \in thrown => pc = "raised" /\ exc = "retriever"
  /\ "llm" \in thrown => pc = "raised" /\ exc = "llm"
  /\ "similarity_search" \in thrown =>
       /\ pc \in {"score_search", "generate", "returned", "raised"}
       /\ pc = "returned" => path \in {"low_relevance", "generated"}
       /\ pc = "raised" => exc \in {"llm"} \cup ParsingExceptions

\* C15 witness: in one call a supplementary entity search raised and was
\* caught, and the generation call raised and reached the caller.
C15_Witness ==
  /\ thrown = {"similarity_search", "llm"}
  /\ pc = "raised"
  /\ exc = "llm"

\* --------------------------------------------------- claims: the pre-check

\* the question matches a blocked pattern, whatever the case of either
question_matches_pattern ==
  \E i \in 1..Len(policies.blocked_regex) :
    contains(lower(question), lower(policies.blocked_regex[i].lit))

\* the question contains a blocked topic keyword, whatever the case of either
question_contains_topic ==
  \E i \in 1..Len(policies.blocked_topics) :
    contains(lower(question), lower(policies.blocked_topics[i]))

\* what the pre-check of the running call decided: "" for allowed
precheck_outcome ==
  IF pc = "returned" /\ path = "blocked" THEN logged_flags.v[1] ELSE ""

\* C19: the pre-check classifies a question as blocked_regex if it matches
\* any blocked pattern (tested first, case-insensitively), else as
\* blocked_topic if it contains any blocked topic keyword
\* (case-insensitively), else as allowed; a question that matches both is
\* reported as blocked_regex.
C19_PreCheckClassification ==
  pc \notin {"off", "idle"} =>
    precheck_outcome = IF question_matches_pattern THEN "blocked_regex"
                       ELSE IF question_contains_topic THEN "blocked_topic"
                       ELSE ""

\* ------------------------------------------------ claims: conversation memory

\* the log after one more turn under a window of n turns
log_with(lst, turn, n) ==
  LET l2 == Append(lst, turn)
  IN IF Len(l2) > n THEN SubSeq(l2, Len(l2) - n + 1, Len(l2)) ELSE l2

\* a turn as a memory context shows it
turn_text(t) == << "Q", ":", " " >> \o t.q \o << "\n", "A", ":", " " >> \o t.a

\* a call of query returns: its conversation's log gets the one turn
\* (question, answer), with the fallback text on the blocked and gated paths,
\* and the other logs stay as they are
ReturnAppendsOneTurn ==
  (pc # "returned" /\ pc' = "returned") =>
    /\ memory' = [memory EXCEPT ![conversation_id'] =
                    log_with(@, [q |-> question', a |-> result'.answer],
                             policies.memory.max_turns)]
    /\ path' = "blocked" => result'.answer = policies.fallback.off_domain_message
    /\ path' = "low_relevance" => result'.answer = policies.fallback.off_topic_message

\* a call of query that does not return leaves every log as it is (a step
\* from idle to idle is no step of a call)
NoTurnUnlessReturned ==
  (pc' # "returned" /\ ~ (pc = "idle" /\ pc' = "idle")) => memory' = memory

\* the retrieval query of a call is built from a memory context that
\* contains the latest turn of its conversation
RetrievalQuerySeesLatestTurn ==
  (pc = "retrieve" /\ memory[conversation_id] # <<>>) =>
    contains(enriched_q,
             turn_text(memory[conversation_id][Len(memory[conversation_id])]))

\* C16: every call of query that returns an answer (blocked, low relevance or
\* generated) appends exactly one (question, answer) turn to the memory of its
\* conversation id, with the fallback text as the answer on the blocked and
\* gated paths, so that the next query on the same conversation id builds its
\* retrieval query from a memory context that contains that turn; a call that
\* ends with an exception appends nothing.
C16_ReturnedTurnSeenByNextQuery ==
  /\ [][ReturnAppendsOneTurn /\ NoTurnUnlessReturned]_vars
  /\ [] RetrievalQuerySeesLatestTurn

\* the last n entries of a list (n >= 0)
last_window(l, n) == IF Len(l) > n THEN SubSeq(l, Len(l) - n + 1, Len(l)) ELSE l

\* C17: after any sequence of ConversationMemory.add calls with
\* max_turns = N >= 1, the log kept for each conversation id is exactly the
\* last min(N, k) turns added under that id, k being the number of adds for
\* that id, in the order they were added; the turns added under the other ids
\* have no part in it.
C17_LogIsLastWindow ==
  m_max_turns >= 1 =>
    \A c \in ConvIds :
      /\ cache_get(m_cache, c) = last_window(m_added[c], m_max_turns)
      /\ Len(cache_get(m_cache, c)) =
           IF Len(m_added[c]) < m_max_turns THEN Len(m_added[c]) ELSE m_max_turns

\* C17 witness: with max_turns = 2, three turns were added under one id and
\* one under another, the first id's log is the last two of its three, and
\* the first of them is gone.
C17_Witness ==
  /\ m_max_turns = 2
  /\ Len(m_added["default"]) = 3
  /\ Len(m_added["repl"]) = 1
  /\ m_added["default"][1] # m_added["default"][2]
  /\ m_added["default"][1] # m_added["default"][3]
  /\ m_cache["default"] = << m_added["default"][2], m_added["default"][3] >>
  /\ m_cache["repl"] = m_added["repl"]

\* the log the cache holds for a conversation id
thread_log(c) == IF t_cache[c] = 0 THEN <<>> ELSE t_heap[t_cache[c]]

\* the logs a conversation id can have after the adds of its threads ran one
\* after the other, in either order
sequential_logs(c) ==
  LET ts == {t \in Threads : t_conv[t] = c}
      orders == {o \in [1..Cardinality(ts) -> ts] :
                   \A i, j \in 1..Cardinality(ts) : i # j => o[i] # o[j]}
  IN { last_window(t_init[c] \o [i \in 1..Cardinality(ts) |-> ThreadTurn[o[i]]],
                   t_max_turns) : o \in orders }

\* C18: writes to one conversation id are serialized: when two queries add to
\* the same conversation id concurrently and the steps of their adds
\* interleave, no appended turn is lost: once both adds are over the log is
\* the last-N window of the two adds in one or the other order.  (Adds never
\* wait: every step of a thread depends on that thread's position only.)
C18_ConcurrentAddsLoseNoTurn ==
  (\A t \in Threads : t_pc[t] = "done") =>
    \A c \in ConvIds : thread_log(c) \in sequential_logs(c)

\* ------------------------------------------- claims: preparing candidates

\* the indices of s in S, in increasing order, as a list of the elements
at_indices(s, S) ==
  [k \in 1..Cardinality(S) |->
     s[CHOOSE i \in S : Cardinality({j \in S : j <= i}) = k]]

\* the candidate's text matches a blocked pattern (compiled with IGNORECASE)
matches_blocked_pattern(d) ==
  \E i \in 1..Len(c_policies.blocked_regex) :
    contains(lower(d.page_content), lower(c_policies.blocked_regex[i].lit))

\* C12: _filter_offtopic_docs never turns a non-empty candidate list into an
\* empty one: when at least one candidate matches no blocked pattern the
\* result is exactly the non-matching candidates in their original order, and
\* when every candidate matches the result is the original list.
C12_FilterNeverEmpties ==
  c_pc \notin {"off", "filter"} =>
    LET keep == {i \in 1..Len(c_docs) : ~ matches_blocked_pattern(c_docs[i])}
    IN /\ c_docs # <<>> => c_filtered # <<>>
       /\ keep # {} => c_filtered = at_indices(c_docs, keep)
       /\ keep = {} => c_filtered = c_docs

\* C12 witness: of three candidates the first and the last match a blocked
\* pattern and only the middle one is left.
C12_Witness ==
  /\ c_pc = "rerank"
  /\ Len(c_docs) = 3
  /\ matches_blocked_pattern(c_docs[1])
  /\ ~ matches_blocked_pattern(c_docs[2])
  /\ matches_blocked_pattern(c_docs[3])
  /\ c_filtered = << c_docs[2] >>

\* C12 witness: every candidate matches a blocked pattern and the list is
\* returned as it was.
C12_WitnessAllMatch ==
  /\ c_pc = "rerank"
  /\ Len(c_docs) >= 2
  /\ \A i \in 1..Len(c_docs) : matches_blocked_pattern(c_docs[i])
  /\ c_filtered = c_docs

\* the lexical-overlap score of a candidate against the query
cand_score(d) == lexical_overlap_score(c_query, d.page_content)

same_score(d, e) == ~ score_gt(cand_score(d), cand_score(e)) /\ ~ score_gt(cand_score(e), cand_score(d))

\* C13: _rerank_with_lexical returns a permutation of its input sorted by
\* lexical-overlap score against the query, highest first, and candidates
\* with equal scores keep the order they had in the input.
C13_RerankStableDescending ==
  c_pc \notin {"off", "filter", "rerank"} =>
    /\ Len(c_reranked) = Len(c_filtered)
    /\ \E p \in [1..Len(c_filtered) -> 1..Len(c_filtered)] :
         /\ \A i, j \in 1..Len(c_filtered) : i # j => p[i] # p[j]
         /\ \A i \in 1..Len(c_filtered) : c_reranked[i] = c_filtered[p[i]]
         /\ \A i, j \in 1..Len(c_filtered) :
              i < j =>
                /\ ~ score_gt(cand_score(c_filtered[p[j]]), cand_score(c_filtered[p[i]]))
                /\ same_score(c_filtered[p[i]], c_filtered[p[j]]) => p[i] < p[j]

\* C13 witness: three different candidates were reordered, and two of them
\* with the same score stand behind the third in their input order.
C13_Witness ==
  /\ c_pc = "include"
  /\ Len(c_filtered) = 3
  /\ c_reranked = << c_filtered[2], c_filtered[1], c_filtered[3] >>
  /\ c_filtered[1] # c_filtered[3]
  /\ same_score(c_filtered[1], c_filtered[3])
  /\ score_gt(cand_score(c_filtered[2]), cand_score(c_filtered[1]))

\* C13 witness for scores that round apart: two candidates whose overlaps
\* are the same number (3 / sqrt(4 * 27) = 1 / sqrt(4 * 3)) changed places,
\* the one whose double is the larger by one unit in the last place now first.
C13_WitnessRoundedApart ==
  /\ c_pc = "include"
  /\ c_filtered = << D_w27, D_t >>
  /\ c_reranked = << D_t, D_w27 >>
  /\ cand_score(D_w27) = [inter |-> 3, q |-> 4, t |-> 27]
  /\ cand_score(D_t) = [inter |-> 1, q |-> 4, t |-> 3]

\* the candidate names the alias the question names, in its source or its text
is_entity_match(d) == hits_entity(d, entity_tokens_of(c_query))

doc_key(d) == << d.source, d.page >>

\* the entity matches stand before all other entries
entity_matches_first(out) ==
  \A i, j \in 1..Len(out) :
    i < j => ~ (~ is_entity_match(out[i]) /\ is_entity_match(out[j]))

no_two_with_same_key(out) ==
  \A i, j \in 1..Len(out) : i # j => doc_key(out[i]) # doc_key(out[j])

non_matching(l) == at_indices(l, {i \in 1..Len(l) : ~ is_entity_match(l[i])})

\* a can be had from b by leaving entries out
is_subsequence(a, b) ==
  \E f \in [1..Len(a) -> 1..Len(b)] :
    /\ \A i, j \in 1..Len(a) : i < j => f[i] < f[j]
    /\ \A i \in 1..Len(a) : a[i] = b[f[i]]

\* C14: when the question names a tracked alias and at least one entity match
\* exists, among the current candidates or from the supplementary searches,
\* the output of _ensure_entity_inclusion lists the entity matches before all
\* other candidates, holds no two entries with the same (source, page), and
\* keeps every non-matching candidate of its input in the original relative
\* order; supplementary searches are made only when no current candidate
\* names the alias.
C14_EntityFrontLoading ==
  /\ c_searches > 0 => \A i \in 1..Len(c_reranked) : ~ is_entity_match(c_reranked[i])
  /\ (c_pc = "done" /\ entity_tokens_of(c_query) # <<>> /\ c_must # <<>>) =>
       /\ entity_matches_first(c_out)
       /\ no_two_with_same_key(c_out)
       /\ \A i \in 1..Len(c_reranked) :
            ~ is_entity_match(c_reranked[i]) =>
              \E j \in 1..Len(c_out) : c_out[j] = c_reranked[i]
       /\ is_subsequence(non_matching(c_out), non_matching(c_reranked))

\* ------------------------------------------- claims: the confidence score

\* C20: calculate_confidence_score returns a score within [0, 1] for any
\* lexical score, any list of distances (empty, negative or very large ones
\* included) and any citation and document counts, and the level is high when
\* the score is at least 0.75, medium when it is at least 0.50, and low
\* otherwise.
C20_ScoreInUnitRangeWithLevel ==
  s_pc = "done" =>
    /\ 0 <= s_score
    /\ s_score <= 1000
    /\ s_level = IF s_score >= 750 THEN "high"
                 ELSE IF s_score >= 500 THEN "medium"
                 ELSE "low"

\* ------------------------------------------------ claims: the benchmark grader

math_specified(test) == test.policy_expect.math_check.k = "dict"

Categories == << "content", "citations", "quotes", "policy", "math" >>

\* the sum of max_points over the categories of a result
scored_max(score_result) ==
  sum_of([i \in 1..Len(Categories) |->
            IF Categories[i] \in DOMAIN score_result.scores
            THEN score_result.scores[Categories[i]].max_points ELSE 0])

\* C21: the max_score of a result is the sum of max_points of the categories
\* scored: 7 when the test specifies a math check, 6 when it does not.
C21_MaxScoreIsSumOfCategories ==
  \A i \in 1..Len(b_results) :
    /\ b_results[i].max_score = scored_max(b_results[i])
    /\ b_results[i].max_score = (IF math_specified(b_test) THEN 7 ELSE 6)

\* C22: a test passes exactly when its total is at least 71% of the maximum
\* that applies to it (7 with a math check, 6 without).
C22_PassAtSeventyOnePercent ==
  \A i \in 1..Len(b_results) :
    b_results[i].passed
      <=> 100 * b_results[i].total_score >= 71 * (IF math_specified(b_test) THEN 7 ELSE 6)

\* a test without math check graded 5 of 6, passed
C22_Witness ==
  /\ b_results # <<>>
  /\ ~ math_specified(b_test)
  /\ b_results[1].total_score = 5
  /\ b_results[1].passed

\* a test without math check graded 4 of 6, failed
C22_WitnessBelow ==
  /\ b_results # <<>>
  /\ ~ math_specified(b_test)
  /\ b_results[1].total_score = 4
  /\ ~ b_results[1].passed

\* term occurs in answer, letter case apart
term_in(answer, term) == contains(lower(answer), lower(term))

terms_found(answer, terms) ==
  Cardinality({i \in 1..Len(terms) : term_in(answer, terms[i])})

content_points(answer, must_include, must_exclude) ==
  IF terms_found(answer, must_exclude) > 0 THEN 0
  ELSE IF must_include = <<>> \/ terms_found(answer, must_include) = Len(must_include) THEN 2
  ELSE IF 2 * terms_found(answer, must_include) >= Len(must_include) THEN 1
  ELSE 0

\* C23: the content score is 0 with a prohibited term in the answer, else 2
\* at an inclusion rate of 100% (or no required term), 1 at 50% or more, else
\* 0, terms compared case-insensitively; with 1 of 2 required terms found and
\* no prohibited term the score is 1 and the feedback names the missing term.
C23_ContentScore ==
  \A i \in 1..Len(b_results) :
    LET content == b_results[i].scores.content
        answer == b_response.answer
    IN /\ content.points = content_points(answer, b_test.must_include, b_test.must_exclude)
       /\ (/\ Len(b_test.must_include) = 2
           /\ terms_found(answer, b_test.must_include) = 1
           /\ terms_found(answer, b_test.must_exclude) = 0)
          => /\ content.points = 1
             /\ \A j \in 1..2 :
                  ~ term_in(answer, b_test.must_include[j])
                    => contains(content.feedback[1], b_test.must_include[j])

\* "refund" and "30 days" required, the answer "Refund ok": one point
C23_Witness ==
  /\ b_results # <<>>
  /\ b_test.must_include = << W_refund, W_days >>
  /\ b_test.must_exclude = <<>>
  /\ term_in(b_response.answer, W_refund)
  /\ ~ contains(b_response.answer, W_refund)
  /\ ~ term_in(b_response.answer, W_days)
  /\ b_results[1].scores.content.points = 1

\* the filenames collected from a response: the source of every quote, every
\* used_documents entry that is a string, and of an entry that is an object
\* its source, or its filename when it has no source
collected_names(json) ==
  {n \in {json.quotes[i].source : i \in 1..Len(json.quotes)} : n # <<>>}
  \cup {json.used_documents[i].v :
          i \in {j \in 1..Len(json.used_documents) :
                   json.used_documents[j].k = "str" /\ json.used_documents[j].v # <<>>}}
  \cup {json.used_documents[i].source :
          i \in {j \in 1..Len(json.used_documents) :
                   json.used_documents[j].k = "dict" /\ json.used_documents[j].source # <<>>}}
  \cup {json.used_documents[i].filename :
          i \in {j \in 1..Len(json.used_documents) :
                   /\ json.used_documents[j].k = "dict"
                   /\ json.used_documents[j].source = <<>>
                   /\ json.used_documents[j].filename # <<>>}}

names_cited(json, must_cite) ==
  Cardinality({i \in 1..Len(must_cite) :
                 \E n \in collected_names(json) : contains(n, must_cite[i])})

\* C24: the citation score is 2 when no citation is required; otherwise a
\* required filename is cited iff it is a substring of a collected filename,
\* and the score is 2 with all of them cited, 1 with at least half, else 0.
C24_CitationScore ==
  \A i \in 1..Len(b_results) :
    b_results[i].scores.citations.points =
      (IF b_test.must_cite = <<>> THEN 2
       ELSE IF names_cited(b_response.json, b_test.must_cite) = Len(b_test.must_cite) THEN 2
       ELSE IF 2 * names_cited(b_response.json, b_test.must_cite) >= Len(b_test.must_cite) THEN 1
       ELSE 0)

\* policy.pdf required, a quote from legal/policy.pdf: two points
C24_Witness ==
  /\ b_results # <<>>
  /\ b_test.must_cite = << F_policy >>
  /\ b_response.json.used_documents = <<>>
  /\ \E i \in 1..Len(b_response.json.quotes) :
       /\ b_response.json.quotes[i].source # F_policy
       /\ contains(b_response.json.quotes[i].source, F_policy)
  /\ b_results[1].scores.citations.points = 2

\* one of two required files cited: one point
C24_WitnessHalf ==
  /\ b_results # <<>>
  /\ Len(b_test.must_cite) = 2
  /\ names_cited(b_response.json, b_test.must_cite) = 1
  /\ b_results[1].scores.citations.points = 1

\* C25: the policy score is 1 exactly when every required-present flag is
\* among the produced flags, no required-absent flag is, and the required
\* answer substring, if one is given, occurs in the answer whatever the
\* letter case of either; otherwise it is 0.
C25_PolicyScore ==
  \A i \in 1..Len(b_results) :
    LET expect == b_test.policy_expect
        flags == b_response.json.policy_flags
        met ==
          /\ \A j \in 1..Len(expect.flags_present) : in_list(expect.flags_present[j], flags)
          /\ \A j \in 1..Len(expect.flags_absent) : ~ in_list(expect.flags_absent[j], flags)
          /\ (expect.must_answer.k = "str" /\ expect.must_answer.v # <<>>)
               => term_in(b_response.answer, expect.must_answer.v)
    IN b_results[i].scores.policy.points = (IF met THEN 1 ELSE 0)

\* C26: two calls of score_response with the same test and response return
\* the same result in every field, and no call changes the test or the
\* response.
C26_GradingIsPure ==
  /\ [][b_test' = b_test /\ b_response' = b_response]_vars
  /\ [](\A i, j \in 1..Len(b_results) : b_results[i] = b_results[j])

\* ------------------------------------------------ claims: tables, pieces, overlap

\* C27: in every emitted chunk that has a table element among its
\* from_elements, the table is the last contributing element.
C27_TablesChunkTerminal ==
  \A i \in 1..Len(cs.chunks) :
    \A k \in 1..Len(cs.chunks[i].from_pos) :
      is_table_of(elements[cs.chunks[i].from_pos[k]], options)
        => k = Len(cs.chunks[i].from_pos)

\* the pieces _split_large_text makes of a text: the slices it yields with a
\* tokenizer, the list its character branch returns without one
pieces_of(text, max_len, e) ==
  IF e THEN token_pieces(encode(text), max_len) ELSE char_pieces(text, max_len)

\* C28: every piece _split_large_text makes of an oversized representation
\* is at most max_len long (tokens with a tokenizer, characters without).
C28_SplitPiecesFit ==
  \A p \in 1..(pos - 1) :
    LET representation == representation_of(elements[p], options)
        pieces == pieces_of(representation, options.max_tokens, enc)
    IN tokens_len(representation, enc) > options.max_tokens
         => \A k \in 1..Len(pieces) : tokens_len(pieces[k], enc) <= options.max_tokens

\* C29: every emitted chunk lists at least one contributing element id.
C29_ChunkHasContributingElement ==
  \A i \in 1..Len(cs.chunks) : cs.chunks[i].from_elements # <<>>

\* --------------------------------------------- claims: query and query_debug

\* C30: query_debug and query agree: started from the same agent state with
\* the same question and the same capability responses (and the same turns
\* added by other callers meanwhile), both return or both raise, return the
\* same answer and the same structured json, and leave the conversation
\* memory in the same state, on every path.
C30_DebugAgreesWithQuery ==
  (d_query # NoOutcome /\ d_debug # NoOutcome /\ is_over(d_query) /\ is_over(d_debug)
     /\ d_query.others = d_debug.others)
    => /\ d_debug.status = d_query.status
       /\ d_debug.answer = d_query.answer
       /\ d_debug.json = d_query.json
       /\ d_debug.turns = d_query.turns

====
